---------------------------- MODULE Spec2Model ----------------------------
(***************************************************************************)
(* A model of the EDF/EDF+ codec of OpenPSG/edf-ts: the writer             *)
(* (EDFWriter) and the reader (EDFReader).                                 *)
(*                                                                         *)
(* The repository holds two revisions of each class.  Both are modelled    *)
(* and a run fixes one writer and one reader revision in Init:             *)
(*   writer  "ts" = src/src/edfwriter.ts    "p6" = src/unnamed/part_006    *)
(*   reader  "ts" = src/src/edfreader.ts    "p3" = src/unnamed/part_003    *)
(*                                                                         *)
(* Representation.                                                         *)
(*   - A JavaScript string is a sequence of character codes; a byte        *)
(*     buffer is a sequence of 0..255.                                     *)
(*   - A time (record duration, onset, duration) is an integer count of    *)
(*     thousandths of a second.  Physical ranges and sample values are     *)
(*     whole numbers, as are counts and digital values.  Arithmetic is     *)
(*     exact (the rounding error of IEEE doubles is not modelled).  NaN    *)
(*     is the value NaN below.                                             *)
(*   - A decoded sample is the exact fraction <<numerator, denominator>>.  *)
(*   - An optional value (duration?: number) is <<>> or <<v>>.             *)
(***************************************************************************)
EXTENDS Integers, Sequences, FiniteSets, TLC

(***************************************************************************)
(* Character codes                                                         *)
(***************************************************************************)
NUL == 0
SEPARATOR == 20
DURATION_MARKER == 21
SPACE == 32
PLUS == 43
MINUS == 45
DOT == 46
ZERO == 48
UNDERSCORE == 95

\* The value of a number that is not a number (parseInt/parseFloat of text
\* holding no digits).  Every model number is far above it.
NaN == 0 - 2000000000

IsNaN(x) == x = NaN

Max(a, b) == IF a >= b THEN a ELSE b

Min(a, b) == IF a <= b THEN a ELSE b

Abs(a) == IF a < 0 THEN 0 - a ELSE a

\* n copies of c
Repeat(c, n) == [i \in 1..n |-> c]

\* String.prototype.padEnd(length): spaces appended up to length
padEnd(val, length) ==
    IF Len(val) >= length THEN val
    ELSE val \o Repeat(SPACE, length - Len(val))

\* String.prototype.substring(0, length)
substring0(val, length) == SubSeq(val, 1, Min(Len(val), length))

\* String.prototype.substring(start, end), 0-based, end exclusive, clamped
substring(val, start, end) ==
    SubSeq(val, Min(start, Len(val)) + 1, Min(end, Len(val)))

\* the white space String.prototype.trim and parseInt/parseFloat strip
IsWhiteSpace(c) == c \in {9, 10, 11, 12, 13, 32, 160}

\* the positions of s holding something other than white space
inkPositions(s) == {i \in 1..Len(s) : ~IsWhiteSpace(s[i])}

trimStart(s) ==
    IF inkPositions(s) = {} THEN <<>>
    ELSE SubSeq(s, CHOOSE i \in inkPositions(s) :
                       \A j \in inkPositions(s) : i <= j, Len(s))

trimEnd(s) ==
    IF inkPositions(s) = {} THEN <<>>
    ELSE SubSeq(s, 1, CHOOSE i \in inkPositions(s) :
                          \A j \in inkPositions(s) : i >= j)

\* String.prototype.trim
trim(s) == trimEnd(trimStart(s))

\* String.prototype.startsWith
startsWith(s, p) == Len(s) >= Len(p) /\ SubSeq(s, 1, Len(p)) = p

\* String.prototype.indexOf for one character: 0-based, -1 when absent
indexOf(s, c) ==
    LET hits == {i \in 1..Len(s) : s[i] = c}
    IN  IF hits = {} THEN 0 - 1
        ELSE (CHOOSE i \in hits : \A j \in hits : i <= j) - 1

\* String.prototype.includes
includes(s, sub) ==
    \E i \in 0..(Len(s) - Len(sub)) : SubSeq(s, i + 1, i + Len(sub)) = sub

\* String.prototype.split on one character: always at least one part
RECURSIVE split(_, _)
split(s, c) ==
    LET i == indexOf(s, c)
    IN  IF i < 0 THEN <<s>>
        ELSE <<SubSeq(s, 1, i)>> \o split(SubSeq(s, i + 2, Len(s)), c)

\* Array.prototype.filter(keep)
filter(list, keep(_)) ==
    LET idx == {i \in 1..Len(list) : keep(list[i])}
        nth[k \in 0..Cardinality(idx)] ==
            IF k = 0 THEN 0
            ELSE CHOOSE i \in idx : i > nth[k - 1]
                     /\ \A j \in idx : j > nth[k - 1] => i <= j
    IN  [k \in 1..Cardinality(idx) |-> list[nth[k]]]

\* Array.prototype.filter keeping the non-empty strings
filterNonEmpty(parts) == filter(parts, LAMBDA x : x # <<>>)

\* Array.prototype.filter keeping the strings with non-blank content
filterNonBlank(parts) == filter(parts, LAMBDA x : trim(x) # <<>>)

\* Array.prototype.join(""), over parts[lo..hi]
RECURSIVE joinRange(_, _, _)
joinRange(parts, lo, hi) ==
    IF lo > hi THEN <<>>
    ELSE IF lo = hi THEN parts[lo]
    ELSE LET mid == (lo + hi) \div 2
         IN  joinRange(parts, lo, mid) \o joinRange(parts, mid + 1, hi)

join(parts) == joinRange(parts, 1, Len(parts))

\* a text with its NULs left in place
keepNul(s) == s

\* String.prototype.replace(/\0/g, "")
removeNul(s) == join([i \in 1..Len(s) |-> IF s[i] = NUL THEN <<>> ELSE <<s[i]>>])

(***************************************************************************)
(* Numbers to text                                                         *)
(***************************************************************************)
IsDigit(c) == c \in 48..57

\* the decimal digits of a natural number
RECURSIVE Digits(_)
Digits(n) ==
    IF n < 10 THEN <<ZERO + n>>
    ELSE Digits(n \div 10) \o <<ZERO + (n % 10)>>

\* String(n) of an integer
IntToString(n) ==
    IF IsNaN(n) THEN <<78, 97, 78>>
    ELSE IF n < 0 THEN <<MINUS>> \o Digits(0 - n)
    ELSE Digits(n)

\* the digits of n, left-padded with zeros to width w
PadDigits(n, w) ==
    LET d == Digits(n)
    IN  IF Len(d) >= w THEN d ELSE Repeat(ZERO, w - Len(d)) \o d

\* Number.prototype.toFixed(3) and toFixed(6) of a number of thousandths
toFixed(m, places) ==
    IF IsNaN(m) THEN <<78, 97, 78>>
    ELSE (IF m < 0 THEN <<MINUS>> ELSE <<>>)
         \o Digits(Abs(m) \div 1000) \o <<DOT>> \o PadDigits(Abs(m) % 1000, 3)
         \o Repeat(ZERO, places - 3)

(***************************************************************************)
(* Text to numbers                                                         *)
(***************************************************************************)
\* the leading run of digits of s
RECURSIVE digitRun(_)
digitRun(s) ==
    IF s # <<>> /\ IsDigit(Head(s)) THEN <<Head(s)>> \o digitRun(Tail(s))
    ELSE <<>>

RECURSIVE digitsValue(_)
digitsValue(d) ==
    IF d = <<>> THEN 0
    ELSE 10 * digitsValue(SubSeq(d, 1, Len(d) - 1)) + (d[Len(d)] - ZERO)

\* parseInt(s): white space, a sign, digits; NaN without a digit
parseInt(s) ==
    LET t    == trimStart(s)
        neg  == t # <<>> /\ Head(t) = MINUS
        body == IF t # <<>> /\ Head(t) \in {PLUS, MINUS} THEN Tail(t) ELSE t
        d    == digitRun(body)
    IN  IF d = <<>> THEN NaN
        ELSE IF neg THEN 0 - digitsValue(d) ELSE digitsValue(d)

\* The number parseFloat reads at the start of s: white space, a sign,
\* digits, a fraction.  Exponents are not modelled.
\*   ip, fp: the digits before and after the point
literalOf(neg, ip, fp) ==
    [nan  |-> ip = <<>> /\ fp = <<>>,
     neg  |-> neg,
     int  |-> digitsValue(ip),
     frac |-> digitsValue(SubSeq(fp \o <<ZERO, ZERO, ZERO>>, 1, 3))]

\* the fraction digits at the start of rest, the text after the integer
fractionRun(rest) ==
    IF rest # <<>> /\ Head(rest) = DOT THEN digitRun(Tail(rest)) ELSE <<>>

\* body: the text after the sign, ip its leading digits
unsignedLiteral(neg, body, ip) ==
    literalOf(neg, ip, fractionRun(SubSeq(body, Len(ip) + 1, Len(body))))

\* t: the text without its leading white space
signedLiteral(t, signed) ==
    unsignedLiteral(t # <<>> /\ Head(t) = MINUS,
                    IF signed THEN Tail(t) ELSE t,
                    digitRun(IF signed THEN Tail(t) ELSE t))

floatLiteral(s) ==
    signedLiteral(trimStart(s),
                  trimStart(s) # <<>> /\ Head(trimStart(s)) \in {PLUS, MINUS})

\* the value of a literal in units of 1/unit: thousandths for unit = 1000,
\* the whole part for unit = 1
literalValue(l, unit) ==
    IF l.nan THEN NaN
    ELSE IF l.neg THEN 0 - (unit * l.int + (unit * l.frac) \div 1000)
    ELSE unit * l.int + (unit * l.frac) \div 1000

\* parseFloat(s) of a time, in thousandths; NaN without a digit.  Fraction
\* digits beyond the third are dropped (every text the model parses
\* carries zeros there).
parseFloat(s) == literalValue(floatLiteral(s), 1000)

\* parseFloat(s) of the text of a whole number (a physical range)
parseFloatWhole(s) == literalValue(floatLiteral(s), 1)

\* Number(s) of a date or time part: the whole text must be digits
Number(s) ==
    LET t == trim(s)
    IN  IF t = <<>> THEN 0
        ELSE IF digitRun(t) = t THEN digitsValue(t)
        ELSE NaN

(***************************************************************************)
(* Text encoding                                                           *)
(***************************************************************************)
\* TextEncoder.encode: UTF-8.  Codes below 128 are one byte, codes up to
\* 2047 two bytes (the model's texts hold no higher code).
utf8Encode(text) ==
    join([i \in 1..Len(text) |->
             IF text[i] < 128 THEN <<text[i]>>
             ELSE <<192 + (text[i] \div 64), 128 + (text[i] % 64)>>])

\* the characters windows-1252 gives the bytes 128..159
Cp1252High ==
    <<8364, 129, 8218, 402, 8222, 8230, 8224, 8225,
      710, 8240, 352, 8249, 338, 141, 381, 143,
      144, 8216, 8217, 8220, 8221, 8226, 8211, 8212,
      732, 8482, 353, 8250, 339, 157, 382, 376>>

\* new TextDecoder("ascii").decode: the label "ascii" selects windows-1252,
\* one character per byte
asciiDecode(bytes) ==
    [i \in 1..Len(bytes) |->
        IF bytes[i] \in 128..159 THEN Cp1252High[bytes[i] - 127] ELSE bytes[i]]

\* Uint8Array.prototype.subarray(start, end): clamped to the array
subarray(bytes, start, end) ==
    LET s == Max(0, Min(start, Len(bytes)))
        e == Max(0, Min(end, Len(bytes)))
    IN  SubSeq(bytes, s + 1, e)

(***************************************************************************)
(* Labels                                                                  *)
(***************************************************************************)
\* "EDF Annotations"
EDFAnnotationsLabel ==
    <<69, 68, 70, 32, 65, 110, 110, 111, 116, 97, 116, 105, 111, 110, 115>>

\* "EDF+C"
EDFPlusC == <<69, 68, 70, 43, 67>>

\* "EDF+D"
EDFPlusD == <<69, 68, 70, 43, 68>>

\* the index of the last signal
lastSignalIndex(signals) == Len(signals) - 1

\* signals.findIndex(sig => sig.label.includes("EDF Annotations")):
\* 0-based, -1 when no signal matches
findAnnotationIndex(signals) ==
    LET hits == {i \in 1..Len(signals) :
                    includes(signals[i].label, EDFAnnotationsLabel)}
    IN  IF hits = {} THEN 0 - 1
        ELSE (CHOOSE i \in hits : \A j \in hits : i <= j) - 1

(***************************************************************************)
(* EDFWriter                                                               *)
(***************************************************************************)
(***************************************************************************)
(* IEEE 754 binary64, the Number type of the times the writer compares.    *)
(* A whole number of up to 140 bits is a sequence of seven limbs, the      *)
(* lowest first; a non-negative Number is [m, s], standing for             *)
(* m * 2^(-s) with 2^52 <= m < 2^53, or m = 0.                             *)
(***************************************************************************)
LimbBase == 2^20

bnZero == <<0, 0, 0, 0, 0, 0, 0>>

\* the whole number n < 2^31
bnFromInt(n) == <<n % LimbBase, n \div LimbBase, 0, 0, 0, 0, 0>>

\* a * k for 0 <= k <= 1024, from limb i on with the carry so far
RECURSIVE bnMulStep(_, _, _, _, _)
bnMulStep(a, k, i, carry, acc) ==
    IF i > Len(a) THEN acc
    ELSE bnMulStep(a, k, i + 1, (a[i] * k + carry) \div LimbBase,
                   Append(acc, (a[i] * k + carry) % LimbBase))

bnMulSmall(a, k) == bnMulStep(a, k, 1, 0, <<>>)

\* a + b
RECURSIVE bnAddStep(_, _, _, _, _)
bnAddStep(a, b, i, carry, acc) ==
    IF i > Len(a) THEN acc
    ELSE bnAddStep(a, b, i + 1, (a[i] + b[i] + carry) \div LimbBase,
                   Append(acc, (a[i] + b[i] + carry) % LimbBase))

bnAdd(a, b) == bnAddStep(a, b, 1, 0, <<>>)

\* quotient and remainder of a by k, 1 <= k <= 1024, from limb i down
RECURSIVE bnDivStep(_, _, _, _, _)
bnDivStep(a, k, i, rem, acc) ==
    IF i = 0 THEN [q |-> acc, r |-> rem]
    ELSE bnDivStep(a, k, i - 1, (rem * LimbBase + a[i]) % k,
                   <<(rem * LimbBase + a[i]) \div k>> \o acc)

bnDivSmall(a, k) == bnDivStep(a, k, Len(a), 0, <<>>)

\* -1, 0 or 1 as a is less than, equal to or greater than b
bnCmp(a, b) ==
    LET differ == {i \in 1..Len(a) : a[i] # b[i]}
    IN  IF differ = {} THEN 0
        ELSE IF \E i \in differ : a[i] < b[i] /\ \A j \in differ : j <= i
        THEN 0 - 1 ELSE 1

\* the number of bits of a whole number below 2^31
bitLength(n) == CHOOSE k \in 0..31 : n < 2^k /\ (k = 0 \/ n >= 2^(k - 1))

\* the number of bits of a
bnBitLength(a) ==
    IF a = bnZero THEN 0
    ELSE LET top == CHOOSE i \in 1..Len(a) :
                        a[i] # 0 /\ \A j \in (i + 1)..Len(a) : a[j] = 0
         IN  20 * (top - 1) + bitLength(a[top])

\* a * 2^k
RECURSIVE bnShiftLeft(_, _)
bnShiftLeft(a, k) ==
    IF k = 0 THEN a
    ELSE IF k >= 10 THEN bnShiftLeft(bnMulSmall(a, 1024), k - 10)
    ELSE bnMulSmall(a, 2^k)

f64Zero == [m |-> bnZero, s |-> 0]

\* a mantissa that rounding carried to 2^53 is halved
f64Carried(m, s) ==
    IF bnBitLength(m) = 54 THEN [m |-> bnDivSmall(m, 2).q, s |-> s - 1]
    ELSE [m |-> m, s |-> s]

\* round to nearest, ties to even: qr is the quotient and remainder by pow
\* of the exact mantissa, sticky says that the exact value lies above it
f64Nearest(qr, pow, sticky, s) ==
    IF \/ 2 * qr.r > pow
       \/ 2 * qr.r = pow /\ (sticky \/ qr.q[1] % 2 = 1)
    THEN f64Carried(bnAdd(qr.q, bnFromInt(1)), s)
    ELSE [m |-> qr.q, s |-> s]

\* the Number nearest to M * 2^(-s), M having len bits (at most 63, and at
\* least 54 when sticky says the exact value lies above M * 2^(-s))
f64RoundBits(M, len, sticky, s) ==
    IF len <= 53 THEN [m |-> bnShiftLeft(M, 53 - len), s |-> s + (53 - len)]
    ELSE f64Nearest(bnDivSmall(M, 2^(len - 53)), 2^(len - 53), sticky,
                    s - (len - 53))

f64Round(M, sticky, s) == f64RoundBits(M, bnBitLength(M), sticky, s)

\* the quotient by 1000 of n * 2^t, rounded
f64Thousandth(qr, t) == f64Round(qr.q, qr.r # 0, t)

\* the Number a decimal literal of n thousandths denotes, n >= 0
f64FromDecimal(n) ==
    IF n = 0 THEN f64Zero
    ELSE f64Thousandth(
             bnDivSmall(bnShiftLeft(bnFromInt(n), 64 - bitLength(n)), 1000),
             64 - bitLength(n))

\* k * x in Number arithmetic, for a whole number 0 <= k < 1024
f64Times(k, x) ==
    IF k = 0 \/ x.m = bnZero THEN f64Zero
    ELSE f64Round(bnMulSmall(x.m, k), FALSE, x.s)

\* the mantissa of x at the scale s >= x.s
f64Scaled(x, s) == bnShiftLeft(x.m, IF x.m = bnZero THEN 0 ELSE s - x.s)

\* a + b in Number arithmetic
f64Plus(a, b) ==
    IF a.m = bnZero THEN b
    ELSE IF b.m = bnZero THEN a
    ELSE f64Round(bnAdd(f64Scaled(a, Max(a.s, b.s)), f64Scaled(b, Max(a.s, b.s))),
                  FALSE, Max(a.s, b.s))

\* a < b
f64Less(a, b) ==
    bnCmp(f64Scaled(a, Max(a.s, b.s)), f64Scaled(b, Max(a.s, b.s))) < 0

\* k * b <= a, exactly, for a whole number 0 <= k < 1024
f64MultipleAtMost(k, b, a) ==
    bnCmp(bnShiftLeft(bnMulSmall(b.m, k), Max(a.s, b.s) - b.s),
          f64Scaled(a, Max(a.s, b.s))) <= 0

\* the floor of the exact quotient a / b, which is h - 1, h or h + 1
f64ExactFloor(a, b, h) ==
    CHOOSE k \in {h - 1, h, h + 1} :
        k >= 0 /\ f64MultipleAtMost(k, b, a) /\ ~f64MultipleAtMost(k + 1, b, a)

\* the exact quotient a / b, below the whole number T, is so near T that
\* the division rounds it to T: T * b <= a + b * 2^(e - 53), the Numbers
\* just below T being spaced 2^(e - 52) apart; c is the common scale
f64ReachesScaled(a, b, T, e, c) ==
    bnCmp(bnShiftLeft(bnMulSmall(b.m, T), c - b.s),
          bnAdd(f64Scaled(a, c), bnShiftLeft(b.m, c - (b.s + 53 - e)))) <= 0

f64Reaches(a, b, T) ==
    f64ReachesScaled(a, b, T, bitLength(T - 1) - 1,
                     Max(a.s, b.s + 53 - (bitLength(T - 1) - 1)))

\* Math.floor(a / b) in Number arithmetic for a >= 0 and b > 0, q being the
\* floor of the exact quotient
f64FloorFrom(a, b, q) == IF f64Reaches(a, b, q + 1) THEN q + 1 ELSE q

\* Math.floor(onset / recordDuration) of two decimal literals given in
\* thousandths, onset >= 0 and recordDuration > 0
f64FloorDiv(onset, recordDuration) ==
    f64FloorFrom(f64FromDecimal(onset), f64FromDecimal(recordDuration),
                 f64ExactFloor(f64FromDecimal(onset), f64FromDecimal(recordDuration),
                               onset \div recordDuration))

\* val.padEnd(length), without the cut
uncut(val, length) == padEnd(val, length)

\* field(val, length) = val.padEnd(length).substring(0, length)
field(val, length) == substring0(padEnd(val, length), length)

\* collect(cb, len): every signal's field, one after the other
collect(signals, cb(_), len) ==
    join([i \in 1..Len(signals) |-> field(cb(signals[i]), len)])

\* format(startTime, "dd.MM.yy")
formatDate(t) ==
    PadDigits(t.day, 2) \o <<DOT>> \o PadDigits(t.month, 2) \o <<DOT>>
    \o PadDigits(t.year % 100, 2)

\* format(startTime, "HH.mm.ss")
formatTime(t) ==
    PadDigits(t.hour, 2) \o <<DOT>> \o PadDigits(t.minute, 2) \o <<DOT>>
    \o PadDigits(t.second, 2)

\* the ten signal field columns, the same in both revisions
signalColumns(signals) ==
    collect(signals, LAMBDA s : s.label, 16)
    \o collect(signals, LAMBDA s : s.transducerType, 80)
    \o collect(signals, LAMBDA s : s.physicalDimension, 8)
    \o collect(signals, LAMBDA s : IntToString(s.physicalMin), 8)
    \o collect(signals, LAMBDA s : IntToString(s.physicalMax), 8)
    \o collect(signals, LAMBDA s : IntToString(s.digitalMin), 8)
    \o collect(signals, LAMBDA s : IntToString(s.digitalMax), 8)
    \o collect(signals, LAMBDA s : s.prefiltering, 80)
    \o collect(signals, LAMBDA s : IntToString(s.samplesPerRecord), 8)
    \o collect(signals, LAMBDA s : s.reserved, 32)

\* buildHeader of src/src/edfwriter.ts: headerBytes and reserved are the
\* caller's
buildHeader_ts(h) ==
    field(h.version, 8)
    \o field(h.patientId, 80)
    \o field(h.recordingId, 80)
    \o field(formatDate(h.startTime), 8)
    \o field(formatTime(h.startTime), 8)
    \o field(IntToString(h.headerBytes), 8)
    \o field(h.reserved, 44)
    \o field(IntToString(h.dataRecords), 8)
    \o field(toFixed(h.recordDuration, 6), 8)
    \o field(IntToString(h.signalCount), 4)
    \o signalColumns(h.signals)

\* buildHeader of src/unnamed/part_006: headerBytes is recomputed and
\* reserved is "EDF+C" with annotations, "" without
buildHeader_p6(h, anns) ==
    LET headerBytes    == 256 + 256 * h.signalCount
        hasAnnotations == anns.defined /\ Len(anns.list) > 0
        reserved       == IF hasAnnotations THEN EDFPlusC ELSE <<>>
    IN  field(h.version, 8)
        \o field(h.patientId, 80)
        \o field(h.recordingId, 80)
        \o field(formatDate(h.startTime), 8)
        \o field(formatTime(h.startTime), 8)
        \o field(IntToString(headerBytes), 8)
        \o field(reserved, 44)
        \o field(IntToString(h.dataRecords), 8)
        \o field(toFixed(h.recordDuration, 6), 8)
        \o field(IntToString(h.signalCount), 4)
        \o signalColumns(h.signals)

buildHeader(w, h, anns) ==
    IF w = "ts" THEN buildHeader_ts(h) ELSE buildHeader_p6(h, anns)

\* "X" and "Startdate"
TextX == <<88>>
TextStartdate == <<83, 116, 97, 114, 116, 100, 97, 116, 101>>

\* the month names toLocaleString("en-US", {month: "short"}) gives
MonthsShort ==
    <<<<74, 97, 110>>, <<70, 101, 98>>, <<77, 97, 114>>, <<65, 112, 114>>,
      <<77, 97, 121>>, <<74, 117, 110>>, <<74, 117, 108>>, <<65, 117, 103>>,
      <<83, 101, 112>>, <<79, 99, 116>>, <<78, 111, 118>>, <<68, 101, 99>>>>

\* "NaN", String(NaN), and "Invalid Date", what toLocaleString gives for a
\* Date that holds no time
TextNaN == <<78, 97, 78>>
TextInvalidDate == <<73, 110, 118, 97, 108, 105, 100, 32, 68, 97, 116, 101>>

\* String.prototype.toUpperCase
toUpperCase(s) ==
    [i \in 1..Len(s) |-> IF s[i] >= 97 /\ s[i] <= 122 THEN s[i] - 32 ELSE s[i]]

\* String.prototype.padStart(length, "0")
padStart(val, length) ==
    IF Len(val) >= length THEN val ELSE Repeat(ZERO, length - Len(val)) \o val

\* val.replace(/\s+/g, "_") from position i on: every run of white space
\* becomes one underscore
RECURSIVE replaceWhiteSpaceFrom(_, _)
replaceWhiteSpaceFrom(val, i) ==
    IF i > Len(val) THEN <<>>
    ELSE IF ~IsWhiteSpace(val[i])
    THEN <<val[i]>> \o replaceWhiteSpaceFrom(val, i + 1)
    ELSE IF i > 1 /\ IsWhiteSpace(val[i - 1])
    THEN replaceWhiteSpaceFrom(val, i + 1)
    ELSE <<UNDERSCORE>> \o replaceWhiteSpaceFrom(val, i + 1)

replaceWhiteSpace(val) == replaceWhiteSpaceFrom(val, 1)

\* safe(val) of patientId and recordingId: a missing or empty string is "X"
safe(val) ==
    IF val = <<>> \/ val[1] = <<>> THEN TextX ELSE replaceWhiteSpace(val[1])

\* formatDate(date) of patientId and recordingId; date is the Date as its
\* getters give it, [valid, date, month (1..12), fullYear], and the getters
\* of a Date that holds no time give NaN
dateSubfield(date) ==
    IF date.valid
    THEN padStart(IntToString(date.date), 2) \o <<MINUS>>
         \o toUpperCase(MonthsShort[date.month]) \o <<MINUS>>
         \o IntToString(date.fullYear)
    ELSE padStart(TextNaN, 2) \o <<MINUS>> \o toUpperCase(TextInvalidDate)
         \o <<MINUS>> \o TextNaN

\* Array.prototype.join(" ")
joinSpaces(parts) ==
    join([i \in 1..(2 * Len(parts) - 1) |->
             IF i % 2 = 1 THEN parts[(i + 1) \div 2] ELSE <<SPACE>>])

\* EDFWriter.patientId({hospitalCode, sex, birthdate, name}); a field is
\* <<>> when missing and <<v>> when given
patientId(p) ==
    joinSpaces(<<safe(p.hospitalCode),
                 IF p.sex = <<>> THEN TextX ELSE p.sex[1],
                 IF p.birthdate = <<>> THEN TextX ELSE dateSubfield(p.birthdate[1]),
                 safe(p.name)>>)

\* EDFWriter.recordingId({startDate, studyCode, technicianCode,
\* equipmentCode})
recordingId(p) ==
    joinSpaces(<<TextStartdate,
                 IF p.startDate = <<>> THEN TextX ELSE dateSubfield(p.startDate[1]),
                 safe(p.studyCode), safe(p.technicianCode),
                 safe(p.equipmentCode)>>)

\* Math.round(n / d): the nearest integer, a half rounded up (d # 0)
RoundDiv(n, d) ==
    IF d > 0 THEN (2 * n + d) \div (2 * d)
    ELSE (2 * (0 - n) + (0 - d)) \div (2 * (0 - d))

\* the quantization of physicalToDigital without its clamp to the digital
\* range
quantize(value, signal) ==
    IF signal.physicalMax = signal.physicalMin THEN 0
    ELSE RoundDiv((value - signal.physicalMin)
                      * (signal.digitalMax - signal.digitalMin),
                  signal.physicalMax - signal.physicalMin)
         + signal.digitalMin

\* physicalToDigital(value, signal)
physicalToDigital(value, signal) ==
    IF signal.physicalMax = signal.physicalMin THEN 0
    ELSE LET digital ==
                 RoundDiv((value - signal.physicalMin)
                              * (signal.digitalMax - signal.digitalMin),
                          signal.physicalMax - signal.physicalMin)
                 + signal.digitalMin
         IN  Max(signal.digitalMin, Min(signal.digitalMax, digital))

\* dataBytes.push(raw & 0xff, (raw >> 8) & 0xff)
sampleBytes(raw) == <<raw % 256, (raw \div 256) % 256>>

\* encodeAnnotationSignal(text, byteLength): cut or zero-filled to the width
encodeAnnotationSignal(text, byteLength) ==
    LET encoded == utf8Encode(text)
    IN  SubSeq(encoded, 1, Min(Len(encoded), byteLength))
        \o Repeat(0, byteLength - Min(Len(encoded), byteLength))

\* one annotation's TAL text, without the terminating NUL
talText(ann) ==
    <<PLUS>> \o toFixed(ann.onset, 3)
    \o (IF ann.duration # <<>>
        THEN <<DURATION_MARKER>> \o toFixed(ann.duration[1], 3) ELSE <<>>)
    \o <<SEPARATOR>> \o ann.annotation \o <<SEPARATOR>>

\* startTime = recordNumber * recordDuration and
\* endTime = startTime + recordDuration, in Number arithmetic
windowStart(recordNumber, recordDuration) ==
    f64Times(recordNumber, f64FromDecimal(recordDuration))

windowEnd(recordNumber, recordDuration) ==
    f64Plus(windowStart(recordNumber, recordDuration),
            f64FromDecimal(recordDuration))

\* a.onset >= startTime && a.onset < endTime; the record numbers and the
\* record duration not being negative, a negative onset is below startTime
inWindow(onset, recordNumber, recordDuration) ==
    /\ onset >= 0
    /\ ~f64Less(f64FromDecimal(onset), windowStart(recordNumber, recordDuration))
    /\ f64Less(f64FromDecimal(onset), windowEnd(recordNumber, recordDuration))

\* annotations.filter(a => a.onset >= startTime && a.onset < endTime)
annotationsIn(list, recordNumber, recordDuration) ==
    filter(list, LAMBDA a : inWindow(a.onset, recordNumber, recordDuration))

\* generateAnnotationBlock of src/src/edfwriter.ts: the record's annotations
\* back to back, one NUL after the last
generateAnnotationBlock_ts(anns, h, recordNumber) ==
    IF ~anns.defined THEN <<>>
    ELSE LET in == annotationsIn(anns.list, recordNumber, h.recordDuration)
         IN  join([i \in 1..Len(in) |-> talText(in[i])]) \o <<NUL>>

\* generateAnnotationBlock of src/unnamed/part_006: a timekeeping TAL, then
\* each of the record's annotations as a TAL of its own.  startTime is
\* within a few units in the last place of recordNumber * recordDuration,
\* so its toFixed(3) is that of the exact product.
generateAnnotationBlock_p6(anns, h, recordNumber) ==
    IF ~anns.defined THEN <<>>
    ELSE LET in == annotationsIn(anns.list, recordNumber, h.recordDuration)
         IN  <<PLUS>> \o toFixed(recordNumber * h.recordDuration, 3)
                 \o <<SEPARATOR, SEPARATOR, NUL>>
             \o join([i \in 1..Len(in) |-> talText(in[i]) \o <<NUL>>])

generateAnnotationBlock(w, anns, h, recordNumber) ==
    IF w = "ts" THEN generateAnnotationBlock_ts(anns, h, recordNumber)
    ELSE generateAnnotationBlock_p6(anns, h, recordNumber)

\* Math.ceil(n / 2) of a natural number
CeilHalf(n) == (n + 1) \div 2

\* the largest member of a set of naturals, 0 for the empty set
MaxOf(S) == IF S = {} THEN 0 ELSE CHOOSE m \in S : \A x \in S : x <= m

\* Math.floor(onset / recordDuration), the quotient being a Number; the
\* negative onsets the writers are given are -recordDuration and half of it,
\* whose quotients are -1 and -0.5 without rounding
FloorDiv(onset, recordDuration) ==
    IF onset >= 0 THEN f64FloorDiv(onset, recordDuration)
    ELSE onset \div recordDuration

\* calculateMinimumAnnotationSamplesPerRecord of src/src/edfwriter.ts: the
\* annotations are grouped by Math.floor(onset / recordDuration) and the
\* longest group's text, with one NUL, sizes the signal
calculateMinimumAnnotationSamplesPerRecord_ts(list, recordDuration) ==
    IF Len(list) = 0 THEN 1
    ELSE LET rec(i)   == FloorDiv(list[i].onset, recordDuration)
             recs     == {rec(i) : i \in 1..Len(list)}
             text(r)  == join([i \in 1..Len(list) |->
                                  IF rec(i) = r THEN talText(list[i])
                                  ELSE <<>>]) \o <<NUL>>
         IN  CeilHalf(MaxOf({Len(utf8Encode(text(r))) : r \in recs}))

\* calculateMinimumAnnotationSamplesPerRecord of src/unnamed/part_006: the
\* longest annotation block over the records 0..dataRecords-1
calculateMinimumAnnotationSamplesPerRecord_p6(anns, h) ==
    IF Len(anns.list) = 0 THEN 1
    ELSE CeilHalf(MaxOf({Len(utf8Encode(generateAnnotationBlock_p6(anns, h, r))) :
                            r \in 0..(h.dataRecords - 1)}))

calculateMinimumAnnotationSamplesPerRecord(w, anns, h) ==
    IF w = "ts"
    THEN calculateMinimumAnnotationSamplesPerRecord_ts(anns.list, h.recordDuration)
    ELSE calculateMinimumAnnotationSamplesPerRecord_p6(anns, h)

\* the signal configureAnnotationSignal appends when the header has none
annotationSignal ==
    [label |-> EDFAnnotationsLabel, transducerType |-> <<>>,
     physicalDimension |-> <<>>, physicalMin |-> 0 - 32768,
     physicalMax |-> 32767, digitalMin |-> 0 - 32768, digitalMax |-> 32767,
     prefiltering |-> <<>>, samplesPerRecord |-> 0, reserved |-> <<>>]

\* the header with an annotation signal: appended, with headerBytes
\* updated, when no label holds "EDF Annotations"
withAnnotationSignal(h) ==
    IF findAnnotationIndex(h.signals) = 0 - 1
    THEN [h EXCEPT !.signals = Append(h.signals, annotationSignal),
                   !.signalCount = h.signalCount + 1,
                   !.headerBytes = 256 + 256 * (h.signalCount + 1)]
    ELSE h

\* while (signalData.length <= annotationIndex) signalData.push([])
withSlot(data, annotationIndex) ==
    IF Len(data) <= annotationIndex
    THEN data \o [i \in 1..(annotationIndex + 1 - Len(data)) |-> <<>>]
    ELSE data

\* the annotation signal's array is taken as it is
keepAnnotationData(h, data, annotationIndex, totalSamples) ==
    [threw |-> FALSE, header |-> h, signalData |-> data]

\* the annotation signal's array is zero-padded to totalSamples; a longer
\* one makes the constructor throw
fitAnnotationData(h, data, annotationIndex, totalSamples) ==
    IF Len(data[annotationIndex + 1]) > totalSamples
    THEN [threw |-> TRUE, header |-> h, signalData |-> data]
    ELSE [threw |-> FALSE, header |-> h,
          signalData |-> [data EXCEPT ![annotationIndex + 1] =
              data[annotationIndex + 1]
              \o Repeat(0, totalSamples - Len(data[annotationIndex + 1]))]]

\* samplesPerRecord of the annotation signal is set to samples
sizeAnnotationSignal(h, data, annotationIndex, samples) ==
    fitAnnotationData(
        [h EXCEPT !.signals[annotationIndex + 1].samplesPerRecord = samples],
        withSlot(data, annotationIndex), annotationIndex,
        samples * h.dataRecords)

\* configureAnnotationSignal(), run by the constructor: the caller's header
\* and list of sample arrays are changed in place.  The annotation signal's
\* index is that of the first label holding "EDF Annotations", which is the
\* last signal when the signal was just appended.
\* Result: [threw, header, signalData].
configureAnnotationSignal(w, h, data, anns) ==
    IF ~anns.defined \/ Len(anns.list) = 0
    THEN [threw |-> FALSE, header |-> h, signalData |-> data]
    ELSE sizeAnnotationSignal(
             withAnnotationSignal(h), data,
             findAnnotationIndex(withAnnotationSignal(h).signals),
             calculateMinimumAnnotationSamplesPerRecord(
                 w, anns, withAnnotationSignal(h)))

\* The validation loop of write() in src/src/edfwriter.ts, from signal i on
\* (1-based): a short array is zero-padded in place, a long one throws and
\* leaves the padding already done.
RECURSIVE validate_ts(_, _, _)
validate_ts(h, data, i) ==
    IF i > h.signalCount THEN [threw |-> FALSE, signalData |-> data]
    ELSE LET expectedSamples == h.signals[i].samplesPerRecord * h.dataRecords
             currentSamples  == Len(data[i])
         IN  IF currentSamples < expectedSamples
             THEN validate_ts(h,
                      [data EXCEPT ![i] = data[i]
                          \o Repeat(0, expectedSamples - currentSamples)],
                      i + 1)
             ELSE IF currentSamples > expectedSamples
             THEN [threw |-> TRUE, signalData |-> data]
             ELSE validate_ts(h, data, i + 1)

\* The same loop in src/unnamed/part_006: it pads and never throws.
validate_p6(h, data, i) ==
    [threw |-> FALSE,
     signalData |->
         [j \in 1..Len(data) |->
             IF j >= i /\ j <= h.signalCount
                /\ Len(data[j]) < h.signals[j].samplesPerRecord * h.dataRecords
             THEN data[j] \o Repeat(0,
                      h.signals[j].samplesPerRecord * h.dataRecords - Len(data[j]))
             ELSE data[j]]]

\* a write() that checks and pads nothing
noValidate(w, h, data) == [threw |-> FALSE, signalData |-> data]

\* a write() that puts one zero in front of every short array at each call
padOneInFront(w, h, data) ==
    [threw |-> FALSE,
     signalData |->
         [j \in 1..Len(data) |->
             IF j <= h.signalCount
                /\ Len(data[j]) < h.signals[j].samplesPerRecord * h.dataRecords
             THEN <<0>> \o data[j]
             ELSE data[j]]]

validate(w, h, data) ==
    IF w = "ts" THEN validate_ts(h, data, 1) ELSE validate_p6(h, data, 1)

\* signalData[s].slice(start, end)
slice(arr, start, end) == SubSeq(arr, Min(start, Len(arr)) + 1, Min(end, Len(arr)))

\* the bytes write() emits for signal s (1-based) of record recordNumber
signalBlock(w, h, data, anns, recordNumber, s) ==
    LET signal == h.signals[s]
        start  == recordNumber * signal.samplesPerRecord
        end    == start + signal.samplesPerRecord
        annotationSignalIndex == findAnnotationIndex(h.signals)
    IN  IF annotationSignalIndex # 0 - 1 /\ s - 1 = annotationSignalIndex
        THEN encodeAnnotationSignal(
                 generateAnnotationBlock(w, anns, h, recordNumber),
                 signal.samplesPerRecord * 2)
        ELSE LET part == slice(data[s], start, end)
             IN  join([k \in 1..Len(part) |->
                          sampleBytes(physicalToDigital(part[k], signal))])

\* the data records write() emits
dataBytes(w, h, data, anns) ==
    join([r \in 1..h.dataRecords |->
             join([s \in 1..h.signalCount |->
                      signalBlock(w, h, data, anns, r - 1, s)])])

\* write(): [threw, error, buffer, signalData], signalData being the
\* caller's list of sample arrays as the call leaves it
write(w, h, data, anns) ==
    IF Len(data) # h.signalCount
    THEN [threw |-> TRUE, error |-> "count", buffer |-> <<>>,
          signalData |-> data]
    ELSE LET v == validate(w, h, data)
         IN  IF v.threw
             THEN [threw |-> TRUE, error |-> "tooLong", buffer |-> <<>>,
                   signalData |-> v.signalData]
             ELSE [threw |-> FALSE, error |-> "none",
                   buffer |-> utf8Encode(buildHeader(w, h, anns))
                              \o dataBytes(w, h, v.signalData, anns),
                   signalData |-> v.signalData]

(***************************************************************************)
(* EDFReader                                                               *)
(***************************************************************************)
\* readFieldText(signalCount, start, end, signalIndex)
readFieldText(bytes, signalCount, start, end, signalIndex) ==
    LET offset == 256 + start * signalCount + (end - start) * signalIndex
    IN  asciiDecode(subarray(bytes, offset, offset + (end - start)))

\* parts[i] of a split, Number(undefined) being NaN
numberAt(parts, i) == IF i <= Len(parts) THEN Number(parts[i]) ELSE NaN

\* a two-digit year taken as 20yy always
century2000(year) == IF IsNaN(year) THEN NaN ELSE 2000 + year

\* a two-digit year is taken as 19yy from 85 on and as 20yy below
fullYear(year) ==
    IF IsNaN(year) THEN NaN
    ELSE IF year >= 85 THEN 1900 + year ELSE 2000 + year

\* the start time readHeader builds from startDateStr.split(".") = d and
\* startTimeStr.split(".") = t
parseStartTime(d, t) ==
    [year |-> fullYear(numberAt(d, 3)), month |-> numberAt(d, 2),
     day |-> numberAt(d, 1), hour |-> numberAt(t, 1),
     minute |-> numberAt(t, 2), second |-> numberAt(t, 3)]

\* the signal descriptor readHeader reads for signal i (0-based)
parseSignal(bytes, signalCount, i) ==
    [label |-> trim(readFieldText(bytes, signalCount, 0, 16, i)),
     transducerType |-> trim(readFieldText(bytes, signalCount, 16, 96, i)),
     physicalDimension |-> trim(readFieldText(bytes, signalCount, 96, 104, i)),
     physicalMin |-> parseFloatWhole(readFieldText(bytes, signalCount, 104, 112, i)),
     physicalMax |-> parseFloatWhole(readFieldText(bytes, signalCount, 112, 120, i)),
     digitalMin |-> parseInt(readFieldText(bytes, signalCount, 120, 128, i)),
     digitalMax |-> parseInt(readFieldText(bytes, signalCount, 128, 136, i)),
     prefiltering |-> trim(readFieldText(bytes, signalCount, 136, 216, i)),
     samplesPerRecord |-> parseInt(readFieldText(bytes, signalCount, 216, 224, i)),
     reserved |-> trim(readFieldText(bytes, signalCount, 224, 256, i))]

\* the fixed fields of the header text and the signals read with the
\* signal count it declares
headerFields(bytes, headerText, signalCount) ==
    [version |-> trim(substring(headerText, 0, 8)),
     patientId |-> trim(substring(headerText, 8, 88)),
     recordingId |-> trim(substring(headerText, 88, 168)),
     startTime |-> parseStartTime(split(trim(substring(headerText, 168, 176)), DOT),
                                  split(trim(substring(headerText, 176, 184)), DOT)),
     headerBytes |-> parseInt(trim(substring(headerText, 184, 192))),
     reserved |-> trim(substring(headerText, 192, 236)),
     dataRecords |-> parseInt(trim(substring(headerText, 236, 244))),
     recordDuration |-> parseFloat(trim(substring(headerText, 244, 252))),
     signalCount |-> signalCount,
     signals |-> [i \in 1..(IF IsNaN(signalCount) THEN 0 ELSE signalCount)
                     |-> parseSignal(bytes, signalCount, i - 1)]]

\* the header readHeader parses from the buffer
parseHeader(bytes) ==
    headerFields(bytes, asciiDecode(subarray(bytes, 0, 256)),
                 parseInt(trim(substring(asciiDecode(subarray(bytes, 0, 256)),
                                         252, 256))))

\* the greatest common divisor of two naturals, not both zero
RECURSIVE GCD(_, _)
GCD(a, b) == IF b = 0 THEN a ELSE GCD(b, a % b)

\* a decoding that gives physicalMin whatever the digital value
toPhysicalMin(digital, signal) == <<signal.physicalMin, 1>>

\* digitalToPhysical(digital, signal): the exact fraction <<num, den>> of
\*   physicalMin + (digital - digitalMin) * (physicalMax - physicalMin)
\*                                        / (digitalMax - digitalMin)
\* with the scale (physicalMax - physicalMin) / (digitalMax - digitalMin)
\* in lowest terms
digitalToPhysical(digital, signal) ==
    IF signal.digitalMax = signal.digitalMin THEN <<0, 1>>
    ELSE LET p == signal.physicalMax - signal.physicalMin
             q == signal.digitalMax - signal.digitalMin
             g == GCD(Abs(q), Abs(p))
         IN  <<signal.physicalMin * (q \div g)
                 + (digital - signal.digitalMin) * (p \div g),
               q \div g>>

\* DataView.getInt16(offset, true) succeeds on these offsets
inView(bytes, offset) == offset >= 0 /\ offset + 2 <= Len(bytes)

\* DataView.getInt16(offset, true): little endian, two's complement
getInt16(bytes, offset) ==
    LET u == bytes[offset + 1] + 256 * bytes[offset + 2]
    IN  IF u >= 32768 THEN u - 65536 ELSE u

\* no bytes before any signal
noBytesBefore(signals, n) == 0

\* sum of samplesPerRecord * 2 over the first n signals
RECURSIVE bytesBefore(_, _)
bytesBefore(signals, n) ==
    IF n <= 0 THEN 0
    ELSE bytesBefore(signals, n - 1) + signals[n].samplesPerRecord * 2

\* the records a read covers: recordNumber is <<>> (all) or <<r>>
recordRange(h, recordNumber) ==
    IF recordNumber = <<>> THEN [k \in 1..h.dataRecords |-> k - 1]
    ELSE <<recordNumber[1]>>

\* readSignal(signalIndex, recordNumber) on header h: [threw, samples]
readSignal(bytes, h, signalIndex, recordNumber) ==
    IF signalIndex < 0 \/ signalIndex >= Len(h.signals)
    THEN [threw |-> TRUE, samples |-> <<>>]
    ELSE LET signal     == h.signals[signalIndex + 1]
             recordSize == bytesBefore(h.signals, Len(h.signals))
             signalByteOffset == bytesBefore(h.signals, signalIndex)
             recs       == recordRange(h, recordNumber)
             sampleOffset(rec, j) ==
                 h.headerBytes + rec * recordSize + signalByteOffset + j * 2
             offsets    == join([k \in 1..Len(recs) |->
                               [j \in 1..signal.samplesPerRecord |->
                                   sampleOffset(recs[k], j - 1)]])
         IN  IF \E k \in 1..Len(offsets) : ~inView(bytes, offsets[k])
             THEN [threw |-> TRUE, samples |-> <<>>]
             ELSE [threw |-> FALSE,
                   samples |-> [k \in 1..Len(offsets) |->
                       digitalToPhysical(getInt16(bytes, offsets[k]), signal)]]

\* the text of the annotation signal's byte window in record rec
annotationWindow(bytes, h, annSignalIndex, rec) ==
    LET recordSize == bytesBefore(h.signals, Len(h.signals))
        start == h.headerBytes + rec * recordSize
                 + bytesBefore(h.signals, annSignalIndex)
        end   == start + h.signals[annSignalIndex + 1].samplesPerRecord * 2
    IN  asciiDecode(subarray(bytes, start, end))

\* the annotations of one TAL whose time part, split on \x15, is od: every
\* part after the first is a text, trimmed
timedTexts(parts, od) ==
    [i \in 1..(Len(parts) - 1) |->
        [onset |-> parseFloat(od[1]),
         duration |-> IF Len(od) >= 2 THEN <<parseFloat(od[2])>> ELSE <<>>,
         annotation |-> trim(parts[i + 1])]]

\* the annotations of the non-empty parts of one TAL: none unless the
\* first part starts with a sign
signedTexts(parts) ==
    IF Len(parts) = 0 THEN <<>>
    ELSE IF Head(parts[1]) \in {PLUS, MINUS}
    THEN timedTexts(parts, split(parts[1], DURATION_MARKER))
    ELSE <<>>

\* the annotations readAnnotations of src/src/edfreader.ts takes from one
\* TAL: the first non-empty part gives onset and duration, every further
\* non-empty part is a text
talAnnotations_ts(tal) == signedTexts(filterNonEmpty(split(tal, SEPARATOR)))

\* onsetStr and durationStr of "onset[\x15duration]", the marker being at
\* durationMarkerIndex (0-based, -1 when absent)
onsetStr(onsetDurationPart, durationMarkerIndex) ==
    IF durationMarkerIndex >= 0
    THEN SubSeq(onsetDurationPart, 1, durationMarkerIndex)
    ELSE onsetDurationPart

\* a TAL's duration text when the duration marker is not looked for
noDurationStr(onsetDurationPart, durationMarkerIndex) == <<>>

durationStr(onsetDurationPart, durationMarkerIndex) ==
    IF durationMarkerIndex >= 0
    THEN SubSeq(onsetDurationPart, durationMarkerIndex + 2, Len(onsetDurationPart))
    ELSE <<>>

\* durationStr ? parseFloat(durationStr) : undefined
optionalFloat(str) == IF str # <<>> THEN <<parseFloat(str)>> ELSE <<>>

\* one annotation per part after the first, all with the TAL's onset and
\* duration
talEntries(parts, onset, duration) ==
    [i \in 1..(Len(parts) - 1) |->
        [onset |-> onset, duration |-> duration, annotation |-> parts[i + 1]]]

parseTalParts(parts, durationMarkerIndex) ==
    talEntries(parts,
               parseFloat(onsetStr(parts[1], durationMarkerIndex)),
               optionalFloat(durationStr(parts[1], durationMarkerIndex)))

\* EDFReader.parseTal(tal) of src/unnamed/part_003
parseTal(tal) ==
    parseTalParts(split(tal, SEPARATOR),
                  indexOf(split(tal, SEPARATOR)[1], DURATION_MARKER))

\* talAnnotations.filter(a => a.annotation.length > 0)
withText(list) == filter(list, LAMBDA a : Len(a.annotation) > 0)

\* the annotations of a list of TALs, per reader revision
talsAnnotations(r, TALs) ==
    IF r = "ts" THEN join([k \in 1..Len(TALs) |-> talAnnotations_ts(TALs[k])])
    ELSE join([k \in 1..Len(TALs) |-> withText(parseTal(TALs[k]))])

\* the annotations one record's window yields
windowAnnotations(r, text) == talsAnnotations(r, filterNonBlank(split(text, NUL)))

\* the annotations of the records recs, the annotation signal being at
\* annSignalIndex
recordsAnnotations(r, bytes, h, annSignalIndex, recs) ==
    join([k \in 1..Len(recs) |->
             windowAnnotations(r,
                 annotationWindow(bytes, h, annSignalIndex, recs[k]))])

\* readAnnotations(recordNumber) on header h: the list of annotations
readAnnotations(r, bytes, h, recordNumber) ==
    IF findAnnotationIndex(h.signals) = 0 - 1 THEN <<>>
    ELSE recordsAnnotations(r, bytes, h, findAnnotationIndex(h.signals),
                            recordRange(h, recordNumber))

\* parseFloat(...) || 0
orZero(x) == IF IsNaN(x) \/ x = 0 THEN 0 ELSE x

\* the time stamp of a record whose window, without its NULs and split
\* on \x14, has the non-empty parts entries
entriesStamp(entries) ==
    IF Len(entries) > 0 /\ Head(entries[1]) \in {PLUS, MINUS}
    THEN orZero(parseFloat(split(entries[1], DURATION_MARKER)[1]))
    ELSE 0

windowStamp(text) == entriesStamp(filterNonEmpty(split(removeNul(text), SEPARATOR)))

\* getRecordTimeStamps() of src/src/edfreader.ts: [threw, timestamps].
\* Without an annotation signal, header.signals[-1] is undefined and
\* reading its samplesPerRecord throws a TypeError.
getRecordTimeStamps(bytes, h) ==
    IF findAnnotationIndex(h.signals) = 0 - 1
    THEN [threw |-> TRUE, timestamps |-> <<>>]
    ELSE [threw |-> FALSE,
          timestamps |->
              [k \in 1..h.dataRecords |->
                  windowStamp(annotationWindow(bytes, h,
                                  findAnnotationIndex(h.signals), k - 1))]]

\* annotations.sort((a, b) => a.onset - b.onset): stable, by onset; a
\* difference that is NaN compares as equal
RECURSIVE insertByOnset(_, _)
insertByOnset(sorted, a) ==
    IF sorted = <<>> THEN <<a>>
    ELSE IF /\ ~IsNaN(a.onset)
            /\ ~IsNaN(sorted[Len(sorted)].onset)
            /\ a.onset < sorted[Len(sorted)].onset
    THEN insertByOnset(SubSeq(sorted, 1, Len(sorted) - 1), a)
         \o <<sorted[Len(sorted)]>>
    ELSE Append(sorted, a)

RECURSIVE sortByOnset(_)
sortByOnset(list) ==
    IF list = <<>> THEN <<>>
    ELSE insertByOnset(sortByOnset(SubSeq(list, 1, Len(list) - 1)),
                       list[Len(list)])

\* annotations.filter(a => a.onset !== 0)
nonZero(list) == filter(list, LAMBDA a : a.onset # 0)

\* the annotations of all the TALs
parseTals(TALs) == join([k \in 1..Len(TALs) |-> parseTal(TALs[k])])

\* the time stamp getRecordTimestamp takes from the sorted annotations
sortedStamp(annotations, recordNumber, recordDuration) ==
    IF Len(annotations) = 0 THEN recordNumber * recordDuration
    ELSE IF annotations[1].onset # 0 THEN annotations[1].onset
    ELSE IF recordNumber # 0 /\ Len(nonZero(annotations)) > 0
    THEN nonZero(annotations)[1].onset
    ELSE recordNumber * recordDuration

\* getRecordTimestamp(recordNumber) of src/unnamed/part_003.  The NULs are
\* removed from the window's text before it is split on NUL.
getRecordTimestamp(bytes, h, recordNumber) ==
    IF findAnnotationIndex(h.signals) = 0 - 1
    THEN recordNumber * h.recordDuration
    ELSE sortedStamp(
             sortByOnset(parseTals(filterNonBlank(split(
                 removeNul(annotationWindow(bytes, h,
                               findAnnotationIndex(h.signals), recordNumber)),
                 NUL)))),
             recordNumber, h.recordDuration)

(***************************************************************************)
(* Inputs                                                                  *)
(***************************************************************************)
\* the most data records a header declares
MaxRecords == 2

\* the most samples per record a numeric signal declares
MaxSamplesPerRecord == 2

\* "S1", "uV", "0", "X X X X", "Startdate X X X X"
TextS1 == <<83, 49>>

TextS2 == <<83, 50>>

TextUV == <<117, 86>>

\* "µV"
TextMicroV == <<181, 86>>

TextVersion == <<ZERO>>

TextPatient == <<88, 32, 88, 32, 88, 32, 88>>

TextRecording ==
    <<83, 116, 97, 114, 116, 100, 97, 116, 101, 32, 88, 32, 88, 32, 88, 32, 88>>

\* "Start", "Event A"
TextStart == <<83, 116, 97, 114, 116>>

TextEventA == <<69, 118, 101, 110, 116, 32, 65>>

\* The physical and digital ranges the numeric signals take:
\*   1  the test suite's range, the full 16-bit digital range
\*   2  a coarse range, a quantization step of 10/3
\*   3  physicalMin = physicalMax, with 0 outside the digital range
\*   4  a physicalMin of nine characters, which its 8-character header
\*      field cuts to "-1234567"
Ranges ==
    <<[physicalMin |-> 0 - 100, physicalMax |-> 100,
       digitalMin |-> 0 - 32768, digitalMax |-> 32767],
      [physicalMin |-> 0, physicalMax |-> 10, digitalMin |-> 0, digitalMax |-> 3],
      [physicalMin |-> 5, physicalMax |-> 5, digitalMin |-> 1, digitalMax |-> 3],
      [physicalMin |-> 0 - 12345678, physicalMax |-> 0,
       digitalMin |-> 0, digitalMax |-> 50]>>

\* a numeric signal descriptor
numericSignal(label, range, samplesPerRecord) ==
    [label |-> label, transducerType |-> <<>>, physicalDimension |-> TextUV,
     physicalMin |-> range.physicalMin, physicalMax |-> range.physicalMax,
     digitalMin |-> range.digitalMin, digitalMax |-> range.digitalMax,
     prefiltering |-> <<>>, samplesPerRecord |-> samplesPerRecord,
     reserved |-> <<>>]

\* a header as a caller builds it
callerHeader(signals, dataRecords, headerBytes, reserved) ==
    [version |-> TextVersion, patientId |-> TextPatient,
     recordingId |-> TextRecording,
     startTime |-> [year |-> 2023, month |-> 1, day |-> 1,
                    hour |-> 0, minute |-> 0, second |-> 0],
     headerBytes |-> headerBytes, reserved |-> reserved,
     dataRecords |-> dataRecords, recordDuration |-> 1000,
     signalCount |-> Len(signals), signals |-> signals]

\* The sample values a signal of a range is given: the ends of the
\* physical range, a value inside, one below and one above.
sampleValues(range) ==
    <<range.physicalMin, range.physicalMax,
      range.physicalMin + (range.physicalMax - range.physicalMin) \div 2,
      range.physicalMin - 7, range.physicalMax + 7>>

\* the sample array of n values that walks sampleValues from its k-th
sampleArray(range, k, n) ==
    [j \in 1..n |-> sampleValues(range)[((k + j - 1) % 5) + 1]]

\* the sample array of n values inside the physical range
insideArray(range, k, n) ==
    [j \in 1..n |-> sampleValues(range)[((k + j - 1) % 3) + 1]]

\* the annotation lists a writer is given
noAnnotations == [defined |-> FALSE, list |-> <<>>]

AnnotationLists ==
    {<<>>,
     <<[onset |-> 0, duration |-> <<500>>, annotation |-> TextStart],
       [onset |-> 500, duration |-> <<>>, annotation |-> TextEventA]>>,
     <<[onset |-> 1000, duration |-> <<>>, annotation |-> TextEventA]>>}

\* the sample array number k of n values: inside the physical range for
\* k < 3, reaching outside it from k = 3 on
inputArray(range, k, n) ==
    IF k < 3 THEN insideArray(range, k, n) ELSE sampleArray(range, k, n)

\* The files a reader is opened on without a writer of this library: one
\* numeric signal of one sample per record and, when the file has one, an
\* annotation signal of WindowSamples samples per record.
WindowSamples == 10

\* the TAL "<sign><onset>\x14<text>\x14...\x14\0" of onset text o
talOf(o, texts) ==
    o \o <<SEPARATOR>>
    \o join([i \in 1..Len(texts) |-> texts[i] \o <<SEPARATOR>>]) \o <<NUL>>

\* the timekeeping TAL "+<whole>\x14\x14\0"
timekeepingTal(whole) == talOf(<<PLUS>> \o IntToString(whole), <<<<>>>>)

\* The annotation windows of a file's last record: the text, the onset t of
\* its first (timekeeping) TAL and the onsets of its other TALs, in
\* thousandths.
\*   1  "+0\x14\x14\0+9\x14X\x14\0"      4  "-2\x14\x14\0+9\x14X\x14\0"
\*   2  "+5\x14\x14\0+3\x14X\x14\0"      5  "+0\x14\x14\0"
\*   3  "+7.5\x14\x14\0"                 6  "+4\x14\x14X\x14\0"
Windows ==
    <<[text |-> timekeepingTal(0) \o talOf(<<PLUS, 57>>, <<TextX>>),
       t |-> 0, others |-> <<9000>>],
      [text |-> timekeepingTal(5) \o talOf(<<PLUS, 51>>, <<TextX>>),
       t |-> 5000, others |-> <<3000>>],
      [text |-> talOf(<<PLUS, 55, DOT, 53>>, <<<<>>>>),
       t |-> 7500, others |-> <<>>],
      [text |-> talOf(<<MINUS, 50>>, <<<<>>>>) \o talOf(<<PLUS, 57>>, <<TextX>>),
       t |-> 0 - 2000, others |-> <<9000>>],
      [text |-> timekeepingTal(0), t |-> 0, others |-> <<>>],
      [text |-> talOf(<<PLUS, 52>>, <<<<>>, TextX>>),
       t |-> 4000, others |-> <<>>]>>

\* the window of record rec (0-based) of a continuous recording
continuousWindow(rec) ==
    [text |-> timekeepingTal(rec), t |-> rec * 1000, others |-> <<>>]

\* the header of such a file
fileHeader(n, hasAnnotationSignal) ==
    LET signals ==
            IF hasAnnotationSignal
            THEN <<numericSignal(TextS1, Ranges[2], 1),
                   [annotationSignal EXCEPT !.samplesPerRecord = WindowSamples]>>
            ELSE <<numericSignal(TextS1, Ranges[2], 1)>>
    IN  callerHeader(signals, n, 256 + 256 * Len(signals),
                     IF hasAnnotationSignal THEN EDFPlusD ELSE <<>>)

\* the bytes of such a file: the header, then per record the sample of the
\* numeric signal and, when the file has one, the annotation window
fileBytes(h, windows) ==
    utf8Encode(buildHeader_ts(h))
    \o join([k \in 1..h.dataRecords |->
                sampleBytes(k)
                \o (IF Len(h.signals) = 2
                    THEN encodeAnnotationSignal(windows[k].text, WindowSamples * 2)
                    ELSE <<>>)])

(***************************************************************************)
(* State                                                                   *)
(***************************************************************************)
VARIABLES
    wsrc,             \* the writer revision: "ts" or "p6"
    rsrc,             \* the reader revision: "ts" or "p3"
    given,            \* the constructor's arguments as the caller built them
    header,           \* EDFWriter.header: the caller's header object
    signalData,       \* EDFWriter.signalData: the caller's list of arrays
    annotations,      \* EDFWriter.annotations: [defined, list]
    wpc,              \* "new", "constructed", "again" or "threw" (the constructor)
    out,              \* the last write(): [status, error, buffer]
    rpc,              \* "none" or "open": an EDFReader exists
    file,             \* EDFReader.byteArray
    cache,            \* EDFReader.header: <<>> or <<header>>
    ret,              \* what the caller holds from readHeader():
                      \* [kind |-> "none" | "copy" | "cache", value]
    recordTimestamps, \* EDFReader.recordTimestamps: <<>> or <<list>>
    result            \* the last read: [op, sig, rec, threw, value]

vars == <<wsrc, rsrc, given, header, signalData, annotations, wpc, out,
          rpc, file, cache, ret, recordTimestamps, result>>

writerVars == <<given, header, signalData, annotations, wpc, out>>

noResult == [op |-> "none", sig |-> 0, rec |-> <<>>, threw |-> FALSE,
             value |-> <<>>]

noOutput == [status |-> "none", error |-> "none", buffer |-> <<>>]

\* new EDFWriter(h, data, anns) has not run yet; no reader exists
Start(w, r, h, data, anns) ==
    /\ wsrc = w
    /\ rsrc = r
    /\ given = [header |-> h, signalData |-> data, annotations |-> anns]
    /\ header = h
    /\ signalData = data
    /\ annotations = anns
    /\ wpc = "new"
    /\ out = noOutput
    /\ rpc = "none"
    /\ file = <<>>
    /\ cache = <<>>
    /\ ret = [kind |-> "none", value |-> <<>>]
    /\ recordTimestamps = <<>>
    /\ result = noResult

\* one numeric signal, no annotations: every range, sample arrays inside
\* the physical range and reaching outside it
InitSamples ==
    \E w \in {"ts", "p6"}, r \in {"ts", "p3"} :
    \E ri \in 1..Len(Ranges), spr \in 1..MaxSamplesPerRecord,
       n \in 1..MaxRecords, k \in {0, 3} :
        Start(w, r,
              callerHeader(<<numericSignal(TextS1, Ranges[ri], spr)>>, n, 512, <<>>),
              <<inputArray(Ranges[ri], k, spr * n)>>,
              noAnnotations)

\* one numeric signal whose header carries a stale headerBytes
InitStale ==
    \E w \in {"ts", "p6"}, r \in {"ts", "p3"} :
    \E spr \in 1..MaxSamplesPerRecord, n \in 1..MaxRecords :
        Start(w, r,
              callerHeader(<<numericSignal(TextS1, Ranges[1], spr)>>, n, 256, <<>>),
              <<inputArray(Ranges[1], 0, spr * n)>>,
              noAnnotations)

\* one numeric signal whose sample array is one short or one long
InitLengths ==
    \E w \in {"ts", "p6"}, r \in {"ts", "p3"} :
    \E ri \in 1..2, spr \in 1..MaxSamplesPerRecord, n \in 1..MaxRecords,
       d \in {0 - 1, 1} :
        Start(w, r,
              callerHeader(<<numericSignal(TextS1, Ranges[ri], spr)>>, n, 512, <<>>),
              <<inputArray(Ranges[ri], 0, spr * n + d)>>,
              noAnnotations)

\* two numeric signals, no annotations
InitTwoSignals ==
    \E w \in {"ts", "p6"}, r \in {"ts", "p3"} :
    \E spr \in 1..MaxSamplesPerRecord, n \in 1..MaxRecords :
        Start(w, r,
              callerHeader(<<numericSignal(TextS1, Ranges[1], spr),
                             numericSignal(TextS2, Ranges[2], 1)>>, n, 768, <<>>),
              <<inputArray(Ranges[1], 1, spr * n), inputArray(Ranges[2], 1, n)>>,
              noAnnotations)

\* one numeric signal and an annotation list
InitAnnotations ==
    \E w \in {"ts", "p6"}, r \in {"ts", "p3"} :
    \E n \in 1..MaxRecords, reserved \in {<<>>, EDFPlusD},
       list \in AnnotationLists :
        Start(w, r,
              callerHeader(<<numericSignal(TextS1, Ranges[1], 1)>>, n, 512, reserved),
              <<inputArray(Ranges[1], 0, n)>>,
              [defined |-> TRUE, list |-> list])

\* the years a recording started in: around both ends of 1985..2084
StartYears == {1984, 1985, 2023, 2084, 2085}

\* one numeric signal whose physical dimension is "uV" or "µV", in a
\* recording that started in one of StartYears
InitHeaderText ==
    \E w \in {"ts", "p6"}, r \in {"ts", "p3"} :
    \E year \in StartYears, dimension \in {TextUV, TextMicroV} :
        /\ dimension = TextMicroV => year \in {1984, 2023}
        /\ Start(w, r,
              [callerHeader(
                   <<[numericSignal(TextS1, Ranges[1], 1)
                         EXCEPT !.physicalDimension = dimension]>>,
                   1, 512, <<>>)
                  EXCEPT !.startTime.year = year],
              <<inputArray(Ranges[1], 0, 1)>>,
              noAnnotations)

\* one or two declared numeric signals and a different number of sample
\* arrays, with and without an annotation list
InitCounts ==
    \E w \in {"ts", "p6"}, r \in {"ts", "p3"} :
    \E n \in 1..MaxRecords, declared \in 1..2, supplied \in 0..3,
       list \in AnnotationLists :
        /\ supplied # declared
        /\ Start(w, r,
                 callerHeader(
                     [i \in 1..declared |->
                         numericSignal(IF i = 1 THEN TextS1 ELSE TextS2,
                                       Ranges[i], 1)],
                     n, 256 + 256 * declared, <<>>),
                 [i \in 1..supplied |-> inputArray(Ranges[1], 0, n)],
                 [defined |-> list # <<>>, list |-> list])

\* the caller's header lists an "EDF Annotations" signal before its one or
\* two numeric signals, and the list of sample arrays an empty array for it
InitAnnotationFirst ==
    \E w \in {"ts", "p6"}, r \in {"ts", "p3"} :
    \E n \in 1..MaxRecords, numeric \in 1..2,
       list \in AnnotationLists \ {<<>>} :
        Start(w, r,
              callerHeader(
                  <<annotationSignal>>
                  \o [i \in 1..numeric |->
                         numericSignal(IF i = 1 THEN TextS1 ELSE TextS2,
                                       Ranges[i], i)],
                  n, 512 + 256 * numeric, <<>>),
              <<<<>>>> \o [i \in 1..numeric |-> inputArray(Ranges[i], 1, i * n)],
              [defined |-> TRUE, list |-> list])

\* the ranges with digitalMin = digitalMax: the physical range proper, or
\* a single value too
DegenerateRanges ==
    <<[physicalMin |-> 2, physicalMax |-> 10, digitalMin |-> 7, digitalMax |-> 7],
      [physicalMin |-> 2, physicalMax |-> 2, digitalMin |-> 7, digitalMax |-> 7]>>

\* one numeric signal whose digital range is a single value
InitDegenerate ==
    \E w \in {"ts", "p6"}, r \in {"ts", "p3"} :
    \E ri \in 1..Len(DegenerateRanges), n \in 1..MaxRecords, k \in {0, 3} :
        Start(w, r,
              callerHeader(<<numericSignal(TextS1, DegenerateRanges[ri], 2)>>,
                           n, 512, <<>>),
              <<inputArray(DegenerateRanges[ri], k, 2 * n)>>,
              noAnnotations)

\* a range whose digital limits lie outside the signed 16-bit integers
WideRange ==
    [physicalMin |-> 0 - 4, physicalMax |-> 4,
     digitalMin |-> 0 - 40000, digitalMax |-> 40000]

\* one numeric signal with the wide range
InitWide ==
    \E w \in {"ts", "p6"}, r \in {"ts", "p3"} :
    \E n \in 1..MaxRecords, k \in {0, 2} :
        Start(w, r,
              callerHeader(<<numericSignal(TextS1, WideRange, 2)>>, n, 512, <<>>),
              <<inputArray(WideRange, k, 2 * n)>>,
              noAnnotations)

\* the lengths of a sample array supplied for the annotation signal
PresizedLengths == {0, 3, 60}

\* one numeric signal, an annotation list, and a second sample array, of
\* sevens, which the constructor takes for the annotation signal
InitPresized ==
    \E w \in {"ts", "p6"}, r \in {"ts", "p3"} :
    \E n \in 1..MaxRecords, len \in PresizedLengths,
       list \in AnnotationLists \ {<<>>} :
        Start(w, r,
              callerHeader(<<numericSignal(TextS1, Ranges[1], 1)>>, n, 512, <<>>),
              <<inputArray(Ranges[1], 0, n), Repeat(7, len)>>,
              [defined |-> TRUE, list |-> list])

\* one numeric signal whose label is 17 letters, one more than its column
InitLongLabel ==
    \E w \in {"ts", "p6"}, r \in {"ts", "p3"} :
        Start(w, r,
              callerHeader(<<numericSignal(Repeat(65, 17), Ranges[2], 1)>>,
                           1, 512, <<>>),
              <<inputArray(Ranges[2], 0, 1)>>,
              noAnnotations)

\* the caller's header already lists the "EDF Annotations" signal, after
\* its numeric signal, and states a headerBytes that is right or stale
InitAnnotationListed ==
    \E w \in {"ts", "p6"}, r \in {"ts", "p3"} :
    \E n \in 1..MaxRecords, headerBytes \in {256, 768},
       list \in AnnotationLists \ {<<>>} :
        Start(w, r,
              callerHeader(<<numericSignal(TextS1, Ranges[1], 1), annotationSignal>>,
                           n, headerBytes, <<>>),
              <<inputArray(Ranges[1], 0, n), <<>>>>,
              [defined |-> TRUE, list |-> list])

\* two numeric signals, one array one sample short and the other one
\* sample long, in either order
InitShortAndLong ==
    \E w \in {"ts", "p6"}, r \in {"ts", "p3"} :
    \E n \in 1..MaxRecords, d \in {0 - 1, 1} :
        Start(w, r,
              callerHeader(<<numericSignal(TextS1, Ranges[1], 1),
                             numericSignal(TextS2, Ranges[2], 1)>>, n, 768, <<>>),
              <<inputArray(Ranges[1], 1, n + d), inputArray(Ranges[2], 1, n - d)>>,
              noAnnotations)

Init ==
    \/ InitSamples
    \/ InitStale
    \/ InitLengths
    \/ InitTwoSignals
    \/ InitAnnotations
    \/ InitHeaderText
    \/ InitCounts
    \/ InitAnnotationFirst
    \/ InitDegenerate
    \/ InitWide
    \/ InitPresized
    \/ InitLongLabel
    \/ InitAnnotationListed
    \/ InitShortAndLong

(***************************************************************************)
(* Actions                                                                 *)
(***************************************************************************)
readerVars == <<rpc, file, cache, ret, recordTimestamps, result>>

\* new EDFWriter(header, signalData, annotations)
Construct ==
    /\ wpc = "new"
    /\ \E c \in {configureAnnotationSignal(wsrc, header, signalData, annotations)} :
        /\ wpc' = IF c.threw THEN "threw" ELSE "constructed"
        /\ header' = c.header
        /\ signalData' = c.signalData
    /\ UNCHANGED <<wsrc, rsrc, given, annotations, out>>
    /\ UNCHANGED readerVars

\* new EDFWriter(header, signalData, annotations) once more, on the objects
\* an earlier construction has left
Reconstruct ==
    /\ wpc \in {"constructed", "again"}
    /\ out.status = "none"
    /\ annotations.defined
    /\ Len(annotations.list) > 0
    /\ \E c \in {configureAnnotationSignal(wsrc, header, signalData, annotations)} :
        /\ wpc' = IF c.threw THEN "threw" ELSE "again"
        /\ header' = c.header
        /\ signalData' = c.signalData
    /\ UNCHANGED <<wsrc, rsrc, given, annotations, out>>
    /\ UNCHANGED readerVars

\* writer.write()
Write ==
    /\ wpc = "constructed"
    /\ \E o \in {write(wsrc, header, signalData, annotations)} :
        /\ out' = [status |-> IF o.threw THEN "threw" ELSE "ok",
                   error |-> o.error, buffer |-> o.buffer]
        /\ signalData' = o.signalData
    /\ UNCHANGED <<wsrc, rsrc, given, header, annotations, wpc>>
    /\ UNCHANGED readerVars

\* new EDFReader(new Uint8Array(buffer)) on the buffer write() returned
Open ==
    /\ out.status = "ok"
    /\ rpc = "none"
    /\ rpc' = "open"
    /\ file' = out.buffer
    /\ UNCHANGED <<wsrc, rsrc, cache, ret, recordTimestamps, result>>
    /\ UNCHANGED writerVars

\* the header a method reads through `this.header ?? this.readHeader()`
\* or `this.readHeader()`: the cached one once there is one
headerInUse == IF cache # <<>> THEN cache[1] ELSE parseHeader(file)

\* reader.readHeader(): the first call parses, caches and returns a deep
\* copy (_.cloneDeep); every later call returns the cached object itself
ReadHeader ==
    /\ rpc = "open"
    /\ IF cache = <<>>
       THEN \E h \in {parseHeader(file)} :
                /\ cache' = <<h>>
                /\ ret' = [kind |-> "copy", value |-> <<h>>]
       ELSE /\ cache' = cache
            /\ ret' = [kind |-> "cache", value |-> <<>>]
    /\ UNCHANGED <<wsrc, rsrc, rpc, file, recordTimestamps, result>>
    /\ UNCHANGED writerVars

\* what a caller's assignment does to a header object: a scalar field or
\* a field of the first entry of the signals list is overwritten
mutated(h, m) ==
    IF m = "patientId" THEN [h EXCEPT !.patientId = TextX]
    ELSE [h EXCEPT !.signals[1].label = TextX]

\* The caller assigns to the header the last readHeader() returned: its
\* own copy changes, or, when it holds the cached object, the cache does.
Mutate ==
    /\ ret.kind # "none"
    /\ \E m \in {"patientId", "label"} :
        IF ret.kind = "copy"
        THEN /\ ret' = [ret EXCEPT !.value = <<mutated(ret.value[1], m)>>]
             /\ cache' = cache
        ELSE /\ cache' = <<mutated(cache[1], m)>>
             /\ ret' = ret
    /\ UNCHANGED <<wsrc, rsrc, rpc, file, recordTimestamps, result>>
    /\ UNCHANGED writerVars

\* reader.readSignal(signalIndex, recordNumber?)
ReadSignal ==
    /\ rpc = "open"
    /\ \E h \in {headerInUse} :
        /\ \E i \in 0..(Len(h.signals) - 1),
              rn \in {<<>>} \cup {<<r>> : r \in 0..(h.dataRecords - 1)} :
            \E got \in {readSignal(file, h, i, rn)} :
                result' = [op |-> "readSignal", sig |-> i, rec |-> rn,
                           threw |-> got.threw, value |-> got.samples]
        /\ cache' = <<h>>
    /\ UNCHANGED <<wsrc, rsrc, rpc, file, ret, recordTimestamps>>
    /\ UNCHANGED writerVars

\* reader.readAnnotations(recordNumber?)
ReadAnnotations ==
    /\ rpc = "open"
    /\ \E h \in {headerInUse} :
        /\ \E rn \in {<<>>} \cup {<<r>> : r \in 0..(h.dataRecords - 1)} :
            result' = [op |-> "readAnnotations", sig |-> 0, rec |-> rn,
                       threw |-> FALSE,
                       value |-> readAnnotations(rsrc, file, h, rn)]
        /\ cache' = <<h>>
    /\ UNCHANGED <<wsrc, rsrc, rpc, file, ret, recordTimestamps>>
    /\ UNCHANGED writerVars

\* reader.getRecordTimeStamps() of src/src/edfreader.ts: computed once,
\* then returned from the cache
GetRecordTimeStamps ==
    /\ rpc = "open"
    /\ rsrc = "ts"
    /\ IF recordTimestamps # <<>>
       THEN /\ result' = [op |-> "getRecordTimeStamps", sig |-> 0, rec |-> <<>>,
                          threw |-> FALSE, value |-> recordTimestamps[1]]
            /\ UNCHANGED <<cache, recordTimestamps>>
       ELSE \E h \in {headerInUse} :
                \E got \in {getRecordTimeStamps(file, h)} :
                    /\ result' = [op |-> "getRecordTimeStamps", sig |-> 0,
                                  rec |-> <<>>, threw |-> got.threw,
                                  value |-> got.timestamps]
                    /\ recordTimestamps' =
                           IF got.threw THEN <<>> ELSE <<got.timestamps>>
                    /\ cache' = <<h>>
    /\ UNCHANGED <<wsrc, rsrc, rpc, file, ret>>
    /\ UNCHANGED writerVars

\* reader.getRecordTimestamp(recordNumber) of src/unnamed/part_003
GetRecordTimestamp ==
    /\ rpc = "open"
    /\ rsrc = "p3"
    /\ \E h \in {headerInUse} :
        /\ \E r \in 0..(h.dataRecords - 1) :
            result' = [op |-> "getRecordTimestamp", sig |-> 0, rec |-> <<r>>,
                       threw |-> FALSE,
                       value |-> <<getRecordTimestamp(file, h, r)>>]
        /\ cache' = <<h>>
    /\ UNCHANGED <<wsrc, rsrc, rpc, file, ret, recordTimestamps>>
    /\ UNCHANGED writerVars

Next ==
    \/ Construct
    \/ Reconstruct
    \/ Write
    \/ Open
    \/ ReadSignal
    \/ ReadAnnotations
    \/ GetRecordTimeStamps
    \/ GetRecordTimestamp

Spec == Init /\ [][Next]_vars

(***************************************************************************)
(* A reader on a file that no writer of this library produced              *)
(***************************************************************************)
\* new EDFReader(bytes) has run on the file of header h and windows ws
Opened(r, h, ws) ==
    /\ wsrc = "none"
    /\ rsrc = r
    /\ given = [header |-> h, windows |-> ws]
    /\ header = h
    /\ signalData = <<>>
    /\ annotations = noAnnotations
    /\ wpc = "none"
    /\ out = noOutput
    /\ rpc = "open"
    /\ file = fileBytes(h, ws)
    /\ cache = <<>>
    /\ ret = [kind |-> "none", value |-> <<>>]
    /\ recordTimestamps = <<>>
    /\ result = noResult

\* a file with an annotation signal: continuous records, then a last
\* record holding one of Windows
InitWindows ==
    \E r \in {"ts", "p3"}, n \in 1..MaxRecords, w \in 1..Len(Windows) :
        Opened(r, fileHeader(n, TRUE),
               [k \in 1..n |-> IF k = n THEN Windows[w]
                               ELSE continuousWindow(k - 1)])

\* a file without an annotation signal
InitPlain ==
    \E r \in {"ts", "p3"}, n \in 1..MaxRecords :
        Opened(r, fileHeader(n, FALSE), <<>>)

ReaderInit == InitWindows \/ InitPlain

ReaderNext ==
    \/ ReadHeader
    \/ Mutate
    \/ ReadAnnotations
    \/ GetRecordTimeStamps
    \/ GetRecordTimestamp

ReaderSpec == ReaderInit /\ [][ReaderNext]_vars

(***************************************************************************)
(* Properties of the writer and of the reader on the writer's output       *)
(***************************************************************************)
\* the constructor was given no annotations and, for every signal, exactly
\* samplesPerRecord * dataRecords samples inside the physical range, the
\* digital range being a proper one inside the signed 16-bit range
RoundTripInput ==
    /\ wsrc # "none"
    /\ ~given.annotations.defined
    /\ Len(given.signalData) = Len(given.header.signals)
    /\ \A i \in 1..Len(given.header.signals) :
        /\ Len(given.signalData[i])
             = given.header.signals[i].samplesPerRecord * given.header.dataRecords
        /\ given.header.signals[i].digitalMin < given.header.signals[i].digitalMax
        /\ given.header.signals[i].digitalMin >= 0 - 32768
        /\ given.header.signals[i].digitalMax <= 32767
        /\ \A j \in 1..Len(given.signalData[i]) :
            /\ given.signalData[i][j] >= given.header.signals[i].physicalMin
            /\ given.signalData[i][j] <= given.header.signals[i].physicalMax

\* the fraction read differs from the whole number x written by at most
\* one quantization step (physicalMax - physicalMin) / (digitalMax - digitalMin)
\* of the signal as the caller declared it: |n/d - x| <= p/q for a whole
\* number n, written as |n - x*d| <= floor(p*d / q)
WithinOneStep(read, x, signal) ==
    /\ read[2] > 0
    /\ Abs(read[1] - x * read[2])
         <= ((signal.physicalMax - signal.physicalMin) * read[2])
                \div (signal.digitalMax - signal.digitalMin)

\* C1: with no annotations and sample arrays of exactly
\* samplesPerRecord * dataRecords values inside the physical range,
\* readSignal(i) on the buffer write() returned gives as many samples, in
\* the same order, each within one quantization step of the value written.
C1_SampleRoundTrip ==
    (RoundTripInput /\ result.op = "readSignal" /\ result.rec = <<>>) =>
        /\ ~result.threw
        /\ Len(result.value) = Len(given.signalData[result.sig + 1])
        /\ \A j \in 1..Len(result.value) :
            WithinOneStep(result.value[j], given.signalData[result.sig + 1][j],
                          given.header.signals[result.sig + 1])

\* C3: whatever headerBytes the caller's header held, the header that
\* readHeader() decodes from write()'s output has
\* headerBytes = 256 + 256 * signalCount.
C3_HeaderBytesRecomputed ==
    (wsrc # "none" /\ rpc = "open" /\ cache # <<>>) =>
        cache[1].headerBytes = 256 + 256 * header.signalCount

\* C4: write() with a sample array longer than
\* samplesPerRecord * dataRecords raises an error and returns no buffer.
C4_OversizedThrows ==
    (/\ wsrc # "none"
     /\ out.status # "none"
     /\ \E i \in 1..Len(given.signalData) :
            /\ i <= Len(header.signals)
            /\ Len(given.signalData[i])
                 > header.signals[i].samplesPerRecord * header.dataRecords) =>
        (out.status = "threw" /\ out.buffer = <<>>)

\* the digital value write() encoded for sample j (1-based) of signal i
\* (1-based): the 16-bit value at its place in the data records, which
\* start where the header ends
encodedDigital(i, j) ==
    getInt16(out.buffer,
             (Len(out.buffer)
                - header.dataRecords * bytesBefore(header.signals, Len(header.signals)))
             + ((j - 1) \div header.signals[i].samplesPerRecord)
                   * bytesBefore(header.signals, Len(header.signals))
             + bytesBefore(header.signals, i - 1)
             + 2 * ((j - 1) % header.signals[i].samplesPerRecord))

\* the samples of numeric signals given outside the physical range and
\* written: pairs <<i, j>>
OutsideSamples ==
    {ij \in (1..Len(given.signalData)) \X (1..(MaxRecords * MaxSamplesPerRecord)) :
        /\ ij[1] <= Len(given.header.signals)
        /\ ij[2] <= Len(given.signalData[ij[1]])
        /\ ij[2] <= header.signals[ij[1]].samplesPerRecord * header.dataRecords
        /\ \/ given.signalData[ij[1]][ij[2]] < header.signals[ij[1]].physicalMin
           \/ given.signalData[ij[1]][ij[2]] > header.signals[ij[1]].physicalMax}

InDigitalRange(ij) ==
    /\ encodedDigital(ij[1], ij[2]) >= header.signals[ij[1]].digitalMin
    /\ encodedDigital(ij[1], ij[2]) <= header.signals[ij[1]].digitalMax

\* C5 as stated: every sample outside [physicalMin, physicalMax] is
\* encoded by write() as a digital value inside [digitalMin, digitalMax].
C5_ClampAlways ==
    (wsrc # "none" /\ out.status = "ok") =>
        \A ij \in OutsideSamples : InDigitalRange(ij)

\* C5, amended: for a signal with physicalMin < physicalMax and
\* digitalMin <= digitalMax inside the signed 16-bit range, every sample
\* outside [physicalMin, physicalMax] is encoded by write() as a digital
\* value inside [digitalMin, digitalMax].
C5_ClampInRange ==
    (wsrc # "none" /\ out.status = "ok") =>
        \A ij \in OutsideSamples :
            (/\ header.signals[ij[1]].physicalMin < header.signals[ij[1]].physicalMax
             /\ header.signals[ij[1]].digitalMin <= header.signals[ij[1]].digitalMax
             /\ header.signals[ij[1]].digitalMin >= 0 - 32768
             /\ header.signals[ij[1]].digitalMax <= 32767)
                => InDigitalRange(ij)

\* C5 happens: a sample above physicalMax of a signal with a proper
\* physical range was written and is encoded as digitalMax
C5_Clamped ==
    /\ wsrc # "none"
    /\ out.status = "ok"
    /\ \E ij \in OutsideSamples :
        /\ header.signals[ij[1]].physicalMin < header.signals[ij[1]].physicalMax
        /\ given.signalData[ij[1]][ij[2]] > header.signals[ij[1]].physicalMax
        /\ encodedDigital(ij[1], ij[2]) = header.signals[ij[1]].digitalMax

\* the annotations supplied that fall into record r (0-based), in supply
\* order
SuppliedIn(r) ==
    filter(annotations.list,
           LAMBDA a : /\ a.onset >= r * header.recordDuration
                      /\ a.onset < (r + 1) * header.recordDuration)

\* the annotations supplied grouped by record index, for the records recs
SuppliedGrouped(recs) == join([k \in 1..Len(recs) |-> SuppliedIn(recs[k])])

\* a non-empty annotation list was supplied, every onset inside
\* [0, dataRecords * recordDuration)
AnnotationInput ==
    /\ wsrc # "none"
    /\ annotations.defined
    /\ annotations.list # <<>>
    /\ \A k \in 1..Len(annotations.list) :
        /\ annotations.list[k].onset >= 0
        /\ annotations.list[k].onset < header.dataRecords * header.recordDuration

\* C6: readAnnotations() on write()'s output returns exactly the supplied
\* annotations (onset, duration or none, text), grouped by record index
\* and in supply order within a record, with no timekeeping entries.
C6_AnnotationRoundTrip ==
    (AnnotationInput /\ result.op = "readAnnotations") =>
        result.value = SuppliedGrouped(recordRange(header, result.rec))

\* C7: the reserved field of the header write() produces is "EDF+C" when a
\* non-empty annotation list was supplied and the caller's header does not
\* declare "EDF+D"; otherwise it is the caller's reserved value.
C7_ReservedField ==
    (wsrc # "none" /\ rpc = "open" /\ cache # <<>>) =>
        cache[1].reserved =
            IF /\ annotations.defined
               /\ annotations.list # <<>>
               /\ given.header.reserved # EDFPlusD
            THEN EDFPlusC
            ELSE given.header.reserved

(***************************************************************************)
(* Properties of the reader                                                *)
(***************************************************************************)
\* C2: no header returned by readHeader(), by the first call or a repeated
\* one, shares state with the cached header, so that the cache keeps the
\* values parsed from the buffer whatever the caller assigns to a header it
\* was given.
C2_DefensiveCopies ==
    /\ ret.kind # "cache"
    /\ (rpc = "open" /\ cache # <<>>) => cache[1] = parseHeader(file)

\* the last read gave a time stamp for record rec (0-based)
HasStamp(rec) ==
    \/ /\ result.op = "getRecordTimeStamps"
       /\ ~result.threw
       /\ rec < Len(result.value)
    \/ /\ result.op = "getRecordTimestamp"
       /\ result.rec = <<rec>>

Stamp(rec) ==
    IF result.op = "getRecordTimeStamps" THEN result.value[rec + 1]
    ELSE result.value[1]

\* the records of the file opened whose annotation window is known
WindowRecords == {rec \in 0..MaxRecords : wsrc = "none" /\ rec < Len(given.windows)}

\* C8: a record r # 0 whose timekeeping TAL has onset 0 and whose window
\* holds another TAL of non-zero onset is given that non-zero onset as its
\* time stamp.
C8_DiscontinuousFallback ==
    \A rec \in WindowRecords :
        (/\ rec # 0
         /\ HasStamp(rec)
         /\ given.windows[rec + 1].t = 0
         /\ given.windows[rec + 1].others # <<>>) =>
            Stamp(rec) = given.windows[rec + 1].others[1]

\* C9: a record whose annotation window begins with a signed timekeeping
\* TAL of non-zero onset t is given t as its time stamp, whatever the
\* onsets of the other TALs of that record.
C9_FirstTimekeepingTal ==
    \A rec \in WindowRecords :
        (HasStamp(rec) /\ given.windows[rec + 1].t # 0) =>
            Stamp(rec) = given.windows[rec + 1].t

\* C9 happens: getRecordTimestamp gave t for a record whose window holds a
\* later TAL of a smaller onset
C9_EarlierOnsetIgnored ==
    \E rec \in WindowRecords :
        /\ result.op = "getRecordTimestamp"
        /\ HasStamp(rec)
        /\ given.windows[rec + 1].t # 0
        /\ given.windows[rec + 1].others # <<>>
        /\ given.windows[rec + 1].others[1] < given.windows[rec + 1].t
        /\ Stamp(rec) = given.windows[rec + 1].t

\* C10: on a file without an "EDF Annotations" signal readAnnotations()
\* returns an empty list and the read of the record time stamps completes
\* without error, giving r * recordDuration for record r.
C10_MissingChannelNotFatal ==
    (wsrc = "none" /\ findAnnotationIndex(given.header.signals) = 0 - 1) =>
        /\ ~result.threw
        /\ result.op = "readAnnotations" => result.value = <<>>
        /\ \A rec \in 0..(given.header.dataRecords - 1) :
            HasStamp(rec) => Stamp(rec) = rec * given.header.recordDuration

(***************************************************************************)
(* EDFReader.parseTal on TALs of the form onset[\x15duration]\x14text...   *)
(***************************************************************************)
\* the most texts a TAL carries
MaxTexts == 3

\* "Central Apnea", "Another Event"
TextCentralApnea == <<67, 101, 110, 116, 114, 97, 108, 32, 65, 112, 110, 101, 97>>

TextAnotherEvent == <<65, 110, 111, 116, 104, 101, 114, 32, 69, 118, 101, 110, 116>>

\* onsets as a TAL spells them, with their value in thousandths:
\* "+24784", "+0", "-2", "+7.5"
TalOnsets ==
    {[text |-> <<PLUS, 50, 52, 55, 56, 52>>, value |-> 24784000],
     [text |-> <<PLUS, ZERO>>, value |-> 0],
     [text |-> <<MINUS, 50>>, value |-> 0 - 2000],
     [text |-> <<PLUS, 55, DOT, 53>>, value |-> 7500]}

\* durations as a TAL spells them: "17", "0", "0.5"
TalDurations ==
    {[text |-> <<49, 55>>, value |-> 17000],
     [text |-> <<ZERO>>, value |-> 0],
     [text |-> <<ZERO, DOT, 53>>, value |-> 500]}

\* the lists of 1..MaxTexts annotation texts, the empty text among them
TalTexts ==
    UNION {[1..n -> {TextCentralApnea, TextAnotherEvent, <<>>}] : n \in 1..MaxTexts}

\* the TAL string: onset, the marker and the duration when there is one,
\* then 0x14 and a text for every text
talString(onset, duration, texts) ==
    onset.text
    \o (IF duration # <<>> THEN <<DURATION_MARKER>> \o duration[1].text ELSE <<>>)
    \o join([i \in 1..Len(texts) |-> <<SEPARATOR>> \o texts[i]])

\* no reader exists; the caller holds a TAL string
TalInit ==
    \E onset \in TalOnsets, duration \in {<<>>} \cup {<<d>> : d \in TalDurations},
       texts \in TalTexts :
        /\ wsrc = "none"
        /\ rsrc = "p3"
        /\ given = [onset |-> onset, duration |-> duration, texts |-> texts,
                    tal |-> talString(onset, duration, texts)]
        /\ header = <<>>
        /\ signalData = <<>>
        /\ annotations = noAnnotations
        /\ wpc = "none"
        /\ out = noOutput
        /\ rpc = "none"
        /\ file = <<>>
        /\ cache = <<>>
        /\ ret = [kind |-> "none", value |-> <<>>]
        /\ recordTimestamps = <<>>
        /\ result = noResult

\* EDFReader.parseTal(talString)
ParseTal ==
    /\ rpc = "none"
    /\ wpc = "none"
    /\ result.op = "none"
    /\ result' = [op |-> "parseTal", sig |-> 0, rec |-> <<>>, threw |-> FALSE,
                  value |-> parseTal(given.tal)]
    /\ UNCHANGED <<wsrc, rsrc, rpc, file, cache, ret, recordTimestamps>>
    /\ UNCHANGED writerVars

TalNext == ParseTal

TalSpec == TalInit /\ [][TalNext]_vars

\* C11: parseTal on onset[\x15duration]\x14text1\x14text2... yields one
\* annotation per text, in order, each with the TAL's onset and its
\* duration, the duration being undefined when the TAL has no marker.
C11_TalParse ==
    result.op = "parseTal" =>
        /\ Len(result.value) = Len(given.texts)
        /\ \A i \in 1..Len(result.value) :
            /\ result.value[i].annotation = given.texts[i]
            /\ result.value[i].onset = given.onset.value
            /\ result.value[i].duration
                 = (IF given.duration = <<>> THEN <<>>
                    ELSE <<given.duration[1].value>>)

\* C11 happens: "+24784\x1517\x14Central Apnea\x14Another Event" was parsed
\* into two annotations of onset 24784 and duration 17
C11_TwoTexts ==
    /\ result.op = "parseTal"
    /\ given.tal = <<PLUS, 50, 52, 55, 56, 52, DURATION_MARKER, 49, 55, SEPARATOR>>
                   \o TextCentralApnea \o <<SEPARATOR>> \o TextAnotherEvent
    /\ Len(result.value) = 2
    /\ \A i \in 1..2 : /\ result.value[i].onset = 24784000
                       /\ result.value[i].duration = <<17000>>

(***************************************************************************)
(* The annotation blocks write() generates, record by record, for record   *)
(* durations that are no whole number of seconds                           *)
(***************************************************************************)
\* the data records of these files
BlockRecords == 8

\* record durations of 1 s, 0.1 s and 0.01 s, in thousandths
BlockDurations == {1000, 100, 10}

\* one annotation at the start of record b or in the middle of it
blockAnnotation(b, recordDuration, placed) ==
    [onset |-> b * recordDuration
                 + (IF placed = "boundary" THEN 0 ELSE recordDuration \div 2),
     duration |-> <<>>, annotation |-> TextEventA]

\* the constructor has run on a header of BlockRecords records with one
\* numeric signal and one or two annotations; write() has generated no
\* block yet
BlockStart(w, h, data, anns) ==
    /\ wsrc = w
    /\ rsrc = "none"
    /\ given = [header |-> h, signalData |-> data, annotations |-> anns]
    /\ header = configureAnnotationSignal(w, h, data, anns).header
    /\ signalData = configureAnnotationSignal(w, h, data, anns).signalData
    /\ annotations = anns
    /\ wpc = "constructed"
    /\ out = noOutput
    /\ rpc = "none"
    /\ file = <<>>
    /\ cache = <<>>
    /\ ret = [kind |-> "none", value |-> <<>>]
    /\ recordTimestamps = <<>>
    /\ result = [op |-> "generateAnnotationBlock", sig |-> 0, rec |-> <<>>,
                 threw |-> FALSE, value |-> <<>>]

\* the annotation lists: one annotation in record b, alone or after one at
\* the start of the record before; b = -1 is the record duration before the
\* recording and b = BlockRecords the one after it
blockLists(b, recordDuration, placed) ==
    {<<blockAnnotation(b, recordDuration, placed)>>}
    \cup {<<blockAnnotation(b - 1, recordDuration, "boundary"),
            blockAnnotation(b, recordDuration, placed)>> :
                x \in {b} \ {0 - 1, 0}}

BlockInit ==
    \E w \in {"ts", "p6"}, d \in BlockDurations, b \in (0 - 1)..BlockRecords,
       placed \in {"boundary", "middle"} :
    \E list \in blockLists(b, d, placed) :
        BlockStart(w,
                   [callerHeader(<<numericSignal(TextS1, Ranges[1], 1)>>,
                                 BlockRecords, 512, <<>>)
                        EXCEPT !.recordDuration = d],
                   <<insideArray(Ranges[1], 0, BlockRecords)>>,
                   [defined |-> TRUE, list |-> list])

\* write()'s loop over the records reaches the annotation signal of the
\* next record: this.generateAnnotationBlock(recordNumber)
GenerateAnnotationBlock ==
    /\ result.op = "generateAnnotationBlock"
    /\ Len(result.value) < header.dataRecords
    /\ result' = [result EXCEPT
                      !.rec = <<Len(result.value)>>,
                      !.value = Append(result.value,
                                    generateAnnotationBlock(wsrc, annotations,
                                        header, Len(result.value)))]
    /\ UNCHANGED <<wsrc, rsrc, rpc, file, cache, ret, recordTimestamps>>
    /\ UNCHANGED writerVars

BlockNext == GenerateAnnotationBlock

BlockSpec == BlockInit /\ [][BlockNext]_vars

\* the records (0-based) whose generated block holds the TAL of annotation a
blocksHolding(a) ==
    {r \in 0..(Len(result.value) - 1) : includes(result.value[r + 1], talText(a))}

\* C12: an annotation whose onset is b * recordDuration, the start of
\* record b, is written into the block of record b and into no other.
C12_BoundaryInOneRecord ==
    (/\ result.op = "generateAnnotationBlock"
     /\ Len(result.value) = header.dataRecords) =>
        \A i \in 1..Len(annotations.list) :
            \A b \in 0..(header.dataRecords - 1) :
                annotations.list[i].onset = b * header.recordDuration =>
                    blocksHolding(annotations.list[i]) = {b}

(***************************************************************************)
(* The annotation channel that write() produces                            *)
(***************************************************************************)
\* the text write() put into the annotation signal's window of record r,
\* the data records being the end of the buffer
writtenWindow(r) ==
    annotationWindow(out.buffer,
        [header EXCEPT !.headerBytes =
            Len(out.buffer)
              - header.dataRecords * bytesBefore(header.signals, Len(header.signals))],
        findAnnotationIndex(header.signals), r)

\* the timekeeping TAL of record r: "+", r * recordDuration with three
\* decimals, no duration, an empty text
timekeepingTalOf(r) ==
    <<PLUS>> \o toFixed(r * header.recordDuration, 3)
    \o <<SEPARATOR, SEPARATOR, NUL>>

\* C13: in a file written with an annotation channel, the annotation block
\* of every record r begins with the timekeeping TAL of onset
\* r * recordDuration, whether or not an annotation falls into the record.
C13_TimekeepingTalFirst ==
    (/\ wsrc # "none"
     /\ out.status = "ok"
     /\ findAnnotationIndex(header.signals) # 0 - 1) =>
        \A r \in 0..(header.dataRecords - 1) :
            startsWith(writtenWindow(r), timekeepingTalOf(r))

(***************************************************************************)
(* The header that write() produces                                        *)
(***************************************************************************)
\* a text field as wide as its header field at most, without leading or
\* trailing spaces
FitsText(text, width) == Len(text) <= width /\ trim(text) = text

\* every text field of the writer's header fits its field and every
\* numeric field renders in at most 8 characters (the signal count in 4)
HeaderFits ==
    /\ FitsText(header.version, 8)
    /\ FitsText(header.patientId, 80)
    /\ FitsText(header.recordingId, 80)
    /\ FitsText(header.reserved, 44)
    /\ Len(IntToString(header.headerBytes)) <= 8
    /\ Len(IntToString(header.dataRecords)) <= 8
    /\ Len(toFixed(header.recordDuration, 6)) <= 8
    /\ Len(IntToString(header.signalCount)) <= 4
    /\ \A i \in 1..Len(header.signals) :
        /\ FitsText(header.signals[i].label, 16)
        /\ FitsText(header.signals[i].transducerType, 80)
        /\ FitsText(header.signals[i].physicalDimension, 8)
        /\ FitsText(header.signals[i].prefiltering, 80)
        /\ FitsText(header.signals[i].reserved, 32)
        /\ Len(IntToString(header.signals[i].physicalMin)) <= 8
        /\ Len(IntToString(header.signals[i].physicalMax)) <= 8
        /\ Len(IntToString(header.signals[i].digitalMin)) <= 8
        /\ Len(IntToString(header.signals[i].digitalMax)) <= 8
        /\ Len(IntToString(header.signals[i].samplesPerRecord)) <= 8

\* the bytes of the file at 256 + start * N + width * i hold the field of
\* signal i (0-based), N being the signal count
ColumnHolds(start, width, i, text) ==
    subarray(file, 256 + start * header.signalCount + width * i,
             256 + start * header.signalCount + width * i + width)
        = utf8Encode(field(text, width))

\* C14: for a header whose fields fit and a writer without annotations,
\* readHeader() on write()'s output equals the writer's header, and the
\* label, physical dimension and samples-per-record fields of signal i are
\* found at byte 256 + columnOffset * N + width * i.
C14_HeaderRoundTrip ==
    (/\ wsrc # "none"
     /\ rpc = "open"
     /\ cache # <<>>
     /\ ~annotations.defined \/ annotations.list = <<>>
     /\ HeaderFits) =>
        /\ cache[1] = header
        /\ \A i \in 1..Len(header.signals) :
            /\ ColumnHolds(0, 16, i - 1, header.signals[i].label)
            /\ ColumnHolds(96, 8, i - 1, header.signals[i].physicalDimension)
            /\ ColumnHolds(216, 8, i - 1,
                           IntToString(header.signals[i].samplesPerRecord))

(***************************************************************************)
(* The sample arrays write() accepts                                       *)
(***************************************************************************)
\* the numeric signals (1-based) that were given fewer than
\* samplesPerRecord * dataRecords samples
ShortSignals ==
    {i \in 1..Len(given.signalData) :
        /\ i <= Len(header.signals)
        /\ i - 1 # findAnnotationIndex(header.signals)
        /\ Len(given.signalData[i])
             < header.signals[i].samplesPerRecord * header.dataRecords}

\* the size of dataRecords complete records after the header
FullSize ==
    Len(utf8Encode(buildHeader(wsrc, header, annotations)))
      + header.dataRecords * bytesBefore(header.signals, Len(header.signals))

\* C15: write() accepts a sample array shorter than
\* samplesPerRecord * dataRecords: it returns a buffer of dataRecords
\* complete records in which the samples given are encoded at their places
\* and every missing sample is encoded as the physical value 0 is.
C15_ShortArraysPadded ==
    (wsrc # "none" /\ out.status # "none" /\ ShortSignals # {}
     /\ \A i \in 1..Len(given.signalData) :
            i <= Len(header.signals) =>
                Len(given.signalData[i])
                    <= header.signals[i].samplesPerRecord * header.dataRecords) =>
        /\ out.status = "ok"
        /\ Len(out.buffer) = FullSize
        /\ \A i \in ShortSignals :
            \A j \in 1..(header.signals[i].samplesPerRecord * header.dataRecords) :
                encodedDigital(i, j)
                    = physicalToDigital(
                          IF j <= Len(given.signalData[i])
                          THEN given.signalData[i][j] ELSE 0,
                          header.signals[i])

\* C15 happens: a signal of two samples per record and two records was
\* given three samples and write() returned a buffer
C15_OneShortWritten ==
    /\ wsrc # "none"
    /\ out.status = "ok"
    /\ \E i \in ShortSignals :
        /\ header.signals[i].samplesPerRecord * header.dataRecords = 4
        /\ Len(given.signalData[i]) = 3

(***************************************************************************)
(* Number of sample arrays                                                 *)
(***************************************************************************)
\* the number of signals the caller's header declares, and the number after
\* the constructor has appended an annotation signal
declaredCounts == {given.header.signalCount, header.signalCount}

\* C16: write() throws and returns no buffer whenever the number of sample
\* arrays the caller supplied differs from the header's signalCount, taken
\* as the caller declared it or as the constructor left it.
C16_CountMismatchThrows ==
    (wsrc # "none" /\ out.status # "none"
     /\ Len(given.signalData) \notin declaredCounts) =>
        /\ out.status = "threw"
        /\ out.buffer = <<>>

(***************************************************************************)
(* Identifier builders                                                     *)
(***************************************************************************)
\* "NN", "MCH 0234567", "A  B" with two spaces, "A<tab>B" and " "
TextNN == <<78, 78>>
TextMCH == <<77, 67, 72, 32, 48, 50, 51, 52, 53, 54, 55>>
TextTwoSpaces == <<65, 32, 32, 66>>
TextTab == <<65, 9, 66>>
TextBlank == <<32>>

\* a free-text field: missing, empty or one of the texts
FreeTexts ==
    {<<>>, <<<<>>>>, <<TextNN>>, <<TextMCH>>, <<TextTwoSpaces>>, <<TextTab>>,
     <<TextBlank>>}

\* a Date field: missing, 2 August 1951, 12 March 2002, or a Date that
\* holds no time (new Date(NaN), new Date("yesterday"))
DateFields ==
    {<<>>,
     <<[valid |-> TRUE, date |-> 2, month |-> 8, fullYear |-> 1951]>>,
     <<[valid |-> TRUE, date |-> 12, month |-> 3, fullYear |-> 2002]>>,
     <<[valid |-> FALSE, date |-> NaN, month |-> NaN, fullYear |-> NaN]>>}

\* no writer and no reader exist; the arguments of one call are given
IdStart(g) ==
    /\ wsrc = "ts"
    /\ rsrc = "none"
    /\ given = g
    /\ header = <<>>
    /\ signalData = <<>>
    /\ annotations = noAnnotations
    /\ wpc = "none"
    /\ out = noOutput
    /\ rpc = "none"
    /\ file = <<>>
    /\ cache = <<>>
    /\ ret = [kind |-> "none", value |-> <<>>]
    /\ recordTimestamps = <<>>
    /\ result = noResult

IdInit ==
    \/ \E code \in FreeTexts, sex \in {<<>>, <<<<77>>>>, <<<<70>>>>},
          date \in DateFields, name \in FreeTexts \ {<<TextTab>>, <<TextBlank>>} :
           IdStart([op |-> "patientId", hospitalCode |-> code, sex |-> sex,
                    birthdate |-> date, name |-> name])
    \/ \E date \in DateFields, study \in FreeTexts,
          tech \in {<<>>, <<TextNN>>}, equipment \in {<<>>, <<TextMCH>>} :
           IdStart([op |-> "recordingId", startDate |-> date,
                    studyCode |-> study, technicianCode |-> tech,
                    equipmentCode |-> equipment])

\* EDFWriter.patientId(given)
PatientId ==
    /\ given.op = "patientId"
    /\ result.op = "none"
    /\ result' = [op |-> "patientId", sig |-> 0, rec |-> <<>>, threw |-> FALSE,
                  value |-> patientId(given)]
    /\ UNCHANGED <<wsrc, rsrc, rpc, file, cache, ret, recordTimestamps>>
    /\ UNCHANGED writerVars

\* EDFWriter.recordingId(given)
RecordingId ==
    /\ given.op = "recordingId"
    /\ result.op = "none"
    /\ result' = [op |-> "recordingId", sig |-> 0, rec |-> <<>>, threw |-> FALSE,
                  value |-> recordingId(given)]
    /\ UNCHANGED <<wsrc, rsrc, rpc, file, cache, ret, recordTimestamps>>
    /\ UNCHANGED writerVars

IdNext == PatientId \/ RecordingId

IdSpec == IdInit /\ [][IdNext]_vars

\* every space of text replaced by an underscore
spacesToUnderscores(text) ==
    [i \in 1..Len(text) |-> IF text[i] = SPACE THEN UNDERSCORE ELSE text[i]]

\* part is the subfield of a free-text field: "X" for a missing or empty
\* one, else free of white space, and the text with its spaces replaced
\* where the text holds single spaces only
IsFreeTextSubfield(part, val) ==
    IF val = <<>> \/ val[1] = <<>> THEN part = TextX
    ELSE /\ \A i \in 1..Len(part) : ~IsWhiteSpace(part[i])
         /\ (\A i \in 1..Len(val[1]) : IsWhiteSpace(val[1][i]) =>
                 /\ val[1][i] = SPACE
                 /\ (i = 1 \/ val[1][i - 1] # SPACE)) =>
                part = spacesToUnderscores(val[1])

\* part is the subfield of a Date field: "X" for a missing one and
\* DD-MON-YYYY for a date
IsDateSubfield(part, val) ==
    /\ val = <<>> => part = TextX
    /\ (val # <<>> /\ val[1].valid) =>
           part = PadDigits(val[1].date, 2) \o <<MINUS>>
                  \o toUpperCase(MonthsShort[val[1].month]) \o <<MINUS>>
                  \o PadDigits(val[1].fullYear, 4)

IsPatientId(parts, p) ==
    /\ Len(parts) = 4
    /\ IsFreeTextSubfield(parts[1], p.hospitalCode)
    /\ parts[2] = (IF p.sex = <<>> THEN TextX ELSE p.sex[1])
    /\ IsDateSubfield(parts[3], p.birthdate)
    /\ IsFreeTextSubfield(parts[4], p.name)

IsRecordingId(parts, p) ==
    /\ Len(parts) = 5
    /\ parts[1] = TextStartdate
    /\ IsDateSubfield(parts[2], p.startDate)
    /\ IsFreeTextSubfield(parts[3], p.studyCode)
    /\ IsFreeTextSubfield(parts[4], p.technicianCode)
    /\ IsFreeTextSubfield(parts[5], p.equipmentCode)

\* C17: patientId has exactly the 4 subfields code, sex, birthdate, name and
\* recordingId the 5 subfields "Startdate", date, study, technician,
\* equipment, separated by single spaces; a free-text subfield has its
\* spaces replaced by underscores and a missing field is "X".
C17_IdentifierSubfields ==
    /\ result.op = "patientId" =>
           IsPatientId(split(result.value, SPACE), given)
    /\ result.op = "recordingId" =>
           IsRecordingId(split(result.value, SPACE), given)

(***************************************************************************)
(* Position of the annotation signal                                       *)
(***************************************************************************)
\* seq with its i-th element moved to the end
moveToEnd(seq, i) ==
    SubSeq(seq, 1, i - 1) \o SubSeq(seq, i + 1, Len(seq)) \o <<seq[i]>>

\* what the writer, constructed on header h and sample arrays data with
\* the annotation signal k (1-based) moved to the last position, writes
writtenWithLast(w, h, data, anns, k) ==
    write(w,
          configureAnnotationSignal(
              w, [h EXCEPT !.signals = moveToEnd(h.signals, k)],
              moveToEnd(data, k), anns).header,
          configureAnnotationSignal(
              w, [h EXCEPT !.signals = moveToEnd(h.signals, k)],
              moveToEnd(data, k), anns).signalData,
          anns).buffer

\* the file of the last-position case of the given input
lastPositionFile ==
    writtenWithLast(wsrc, given.header, given.signalData, given.annotations, 1)

\* the caller placed the annotation signal first, before numeric signals
AnnotationFirst ==
    /\ wsrc # "none"
    /\ given.annotations.defined
    /\ Len(given.annotations.list) > 0
    /\ Len(given.header.signals) > 1
    /\ includes(given.header.signals[1].label, EDFAnnotationsLabel)

\* the annotation text of every record lies in the first signal's window
TextInFirstWindow ==
    \A r \in 0..(header.dataRecords - 1) :
        SubSeq(out.buffer,
               header.headerBytes
                   + r * bytesBefore(header.signals, Len(header.signals)) + 1,
               header.headerBytes
                   + r * bytesBefore(header.signals, Len(header.signals))
                   + header.signals[1].samplesPerRecord * 2)
        = encodeAnnotationSignal(
              generateAnnotationBlock(wsrc, annotations, header, r),
              header.signals[1].samplesPerRecord * 2)

\* the last read gave what the same read gives on file bytes, where the
\* numeric signals sit one position earlier
ReadsAsIn(bytes) ==
    /\ (result.op = "readSignal" /\ result.sig >= 1) =>
           /\ result.threw =
                  readSignal(bytes, parseHeader(bytes), result.sig - 1,
                             result.rec).threw
           /\ result.value =
                  readSignal(bytes, parseHeader(bytes), result.sig - 1,
                             result.rec).samples
    /\ result.op = "readAnnotations" =>
           result.value = readAnnotations(rsrc, bytes, parseHeader(bytes),
                                          result.rec)

\* C18: with the annotation signal placed first, write() puts each record's
\* annotation text in that signal's byte window, and every numeric signal
\* and every annotation reads back as with the annotation signal last.
C18_AnnotationByLabel ==
    AnnotationFirst =>
        /\ out.status # "none" => (out.status = "ok" /\ TextInFirstWindow)
        /\ rpc = "open" => ReadsAsIn(lastPositionFile)

C18_FirstPositionRead ==
    /\ AnnotationFirst
    /\ result.op = "readAnnotations"
    /\ result.rec = <<>>
    /\ Len(result.value) > 0
    /\ Len(given.header.signals) = 3

(***************************************************************************)
(* Byte layout of reads                                                    *)
(***************************************************************************)
\* the bytes of the first n signals in one record, counted one by one
bytesOfSignals(signals, n) ==
    Cardinality(UNION {{<<i, b>> : b \in 1..(signals[i].samplesPerRecord * 2)} :
                          i \in 1..n})

\* the offset of the first byte of record r, and of the first byte of
\* signal s (0-based) in it, under header h
recordFirst(h, r) ==
    h.headerBytes + r * bytesOfSignals(h.signals, Len(h.signals))

windowFirst(h, s, r) == recordFirst(h, r) + bytesOfSignals(h.signals, s)

\* the offset after the last byte of signal s in record r
windowAfter(h, s, r) ==
    windowFirst(h, s, r) + h.signals[s + 1].samplesPerRecord * 2

\* the value of sample j (0-based) of signal s in record r
sampleAt(bytes, h, s, r, j) ==
    digitalToPhysical(getInt16(bytes, windowFirst(h, s, r) + 2 * j),
                      h.signals[s + 1])

\* the samples of signal s in record r, in order
recordSamples(bytes, h, s, r) ==
    [j \in 1..h.signals[s + 1].samplesPerRecord |-> sampleAt(bytes, h, s, r, j - 1)]

\* values is what a read of signal s gives under header h: one record's
\* samples, or those of all records in order
IsPositionalRead(values, bytes, h, s, rec) ==
    IF rec # <<>> THEN values = recordSamples(bytes, h, s, rec[1])
    ELSE /\ values = join([r \in 1..h.dataRecords |->
                              readSignal(bytes, h, s, <<r - 1>>).samples])
         /\ values = join([r \in 1..h.dataRecords |->
                              recordSamples(bytes, h, s, r - 1)])

\* the windows of distinct (signal, record) pairs share no byte and each
\* lies inside its record
WindowsApart(h) ==
    \A s1 \in 0..(Len(h.signals) - 1), r1 \in 0..(h.dataRecords - 1) :
        /\ windowFirst(h, s1, r1) >= recordFirst(h, r1)
        /\ windowAfter(h, s1, r1) <= recordFirst(h, r1 + 1)
        /\ \A s2 \in 0..(Len(h.signals) - 1), r2 \in 0..(h.dataRecords - 1) :
               <<s1, r1>> # <<s2, r2>> =>
                   \/ windowAfter(h, s1, r1) <= windowFirst(h, s2, r2)
                   \/ windowAfter(h, s2, r2) <= windowFirst(h, s1, r1)

\* C19: readSignal(s, r) returns the samplesPerRecord values decoded from
\* the 2-byte slots at headerBytes + r*recordSize + (bytes of the signals
\* before s) + 2j, readSignal(s) is the concatenation of readSignal(s, r)
\* over the records in order, and the byte windows of distinct
\* (signal, record) pairs are disjoint and inside their records.
C19_PositionalReads ==
    (rpc = "open" /\ result.op = "readSignal") =>
        /\ ~result.threw
        /\ IsPositionalRead(result.value, file, cache[1], result.sig, result.rec)
        /\ WindowsApart(cache[1])

C19_SecondSignalAllRecords ==
    /\ rpc = "open"
    /\ result.op = "readSignal"
    /\ result.rec = <<>>
    /\ result.sig = 1
    /\ cache[1].dataRecords = 2
    /\ Len(result.value) >= 2
    /\ result.value[1] # result.value[2]

(***************************************************************************)
(* Size of the annotation signal                                           *)
(***************************************************************************)
\* samplesPerRecord of the annotation signal as the constructor set it
annotationSamplesPerRecord ==
    header.signals[findAnnotationIndex(header.signals) + 1].samplesPerRecord

\* the byte lengths of the blocks generated for the records
blockBytes == {Len(utf8Encode(result.value[r])) : r \in 1..Len(result.value)}

\* C20: the annotation signal's samplesPerRecord is ceil(maxBytes / 2),
\* maxBytes being the longest annotation block of the records
\* 0..dataRecords-1, so that no record's block is cut to fit its window.
C20_MinimumAnnotationSize ==
    (/\ result.op = "generateAnnotationBlock"
     /\ Len(annotations.list) > 0
     /\ Len(result.value) = header.dataRecords) =>
        /\ annotationSamplesPerRecord = CeilHalf(MaxOf(blockBytes))
        /\ \A n \in blockBytes : n <= annotationSamplesPerRecord * 2

(***************************************************************************)
(* Degenerate ranges                                                       *)
(***************************************************************************)
\* the signals (1-based) of the written header with physicalMin = physicalMax
FlatPhysical ==
    {i \in 1..Len(header.signals) :
        /\ i - 1 # findAnnotationIndex(header.signals)
        /\ header.signals[i].physicalMin = header.signals[i].physicalMax}

\* the signal the last readSignal read has digitalMin = digitalMax
ReadFlatDigital ==
    /\ rpc = "open"
    /\ result.op = "readSignal"
    /\ cache[1].signals[result.sig + 1].digitalMin
           = cache[1].signals[result.sig + 1].digitalMax

\* C21: write() encodes every sample of a signal with
\* physicalMax = physicalMin as digital 0, readSignal decodes every sample
\* of a signal with digitalMax = digitalMin to 0, and neither raises.
C21_DegenerateRanges ==
    /\ (wsrc # "none" /\ out.status # "none" /\ FlatPhysical # {}
        /\ \A i \in 1..Len(given.signalData) :
               Len(given.signalData[i])
                   <= header.signals[i].samplesPerRecord * header.dataRecords) =>
           /\ out.status = "ok"
           /\ \A i \in FlatPhysical :
                  \A j \in 1..(header.signals[i].samplesPerRecord
                                   * header.dataRecords) :
                      encodedDigital(i, j) = 0
    /\ ReadFlatDigital =>
           /\ ~result.threw
           /\ Len(result.value) > 0
           /\ \A j \in 1..Len(result.value) : result.value[j] = <<0, 1>>

C21_FlatDigitalRead ==
    /\ ReadFlatDigital
    /\ FlatPhysical # {}
    /\ out.status = "ok"
    /\ Len(result.value) = 4
    /\ given.signalData[1][1] # given.signalData[1][2]

(***************************************************************************)
(* Two-digit year                                                          *)
(***************************************************************************)
\* the year the reader's header holds, and the year the caller gave
yearRead == cache[1].startTime.year

yearGiven == given.header.startTime.year

\* C22: readHeader takes the header's two-digit year yy as 1900 + yy from
\* 85 on and as 2000 + yy below, so the year write() was given reads back
\* the same exactly when it lies in 1985..2084.
C22_TwoDigitYear ==
    (wsrc # "none" /\ rpc = "open" /\ cache # <<>>) =>
        /\ yearRead = (IF (yearGiven % 100) >= 85
                       THEN 1900 + (yearGiven % 100)
                       ELSE 2000 + (yearGiven % 100))
        /\ (yearRead = yearGiven) <=> (yearGiven >= 1985 /\ yearGiven <= 2084)

C22_Year1985Read ==
    /\ wsrc # "none"
    /\ rpc = "open"
    /\ cache # <<>>
    /\ yearGiven = 1985
    /\ yearRead = 1985

(***************************************************************************)
(* 16-bit sample encoding                                                  *)
(***************************************************************************)
\* the numeric samples given and written: pairs <<i, j>>, 1-based
WrittenSamples ==
    {ij \in (1..Len(given.signalData)) \X (1..(MaxRecords * MaxSamplesPerRecord)) :
        /\ ij[1] <= Len(header.signals)
        /\ ij[1] - 1 # findAnnotationIndex(header.signals)
        /\ ij[2] <= Len(given.signalData[ij[1]])
        /\ ij[2] <= header.signals[ij[1]].samplesPerRecord * header.dataRecords}

\* the quantized digital value of written sample ij
digitalOf(ij) ==
    physicalToDigital(given.signalData[ij[1]][ij[2]], header.signals[ij[1]])

\* offset of the two bytes of written sample ij in the buffer
slotOf(ij) ==
    (Len(out.buffer)
       - header.dataRecords * bytesBefore(header.signals, Len(header.signals)))
    + ((ij[2] - 1) \div header.signals[ij[1]].samplesPerRecord)
          * bytesBefore(header.signals, Len(header.signals))
    + bytesBefore(header.signals, ij[1] - 1)
    + 2 * ((ij[2] - 1) % header.signals[ij[1]].samplesPerRecord)

\* d modulo 2^16, as a signed 16-bit integer
wrap16(d) == ((d + 32768) % 65536) - 32768

\* the bytes of sample ij are the low and the high byte of its digital
\* value in two's complement, and reading them as a signed 16-bit integer
\* gives the value itself when it lies in -32768..32767 and the value
\* modulo 2^16, another number, when it does not
StoredLowByteFirst(ij) ==
    /\ out.buffer[slotOf(ij) + 1] = digitalOf(ij) % 256
    /\ out.buffer[slotOf(ij) + 2] = (digitalOf(ij) \div 256) % 256
    /\ getInt16(out.buffer, slotOf(ij)) = wrap16(digitalOf(ij))
    /\ (getInt16(out.buffer, slotOf(ij)) = digitalOf(ij))
           <=> (digitalOf(ij) >= 0 - 32768 /\ digitalOf(ij) <= 32767)

\* C23: every quantized digital value d is written low byte first in two's
\* complement; the reader recovers d when -32768 <= d <= 32767, and with a
\* digital range wider than 16 bits the stored value is d modulo 2^16,
\* which differs from a d outside that interval.
C23_SixteenBitSamples ==
    /\ (wsrc # "none" /\ out.status = "ok") =>
           \A ij \in WrittenSamples : StoredLowByteFirst(ij)
    /\ (wsrc # "none" /\ rpc = "open" /\ result.op = "readSignal"
        /\ result.rec = <<>> /\ ~result.threw) =>
           \A ij \in WrittenSamples :
               ij[1] = result.sig + 1 =>
                   result.value[ij[2]]
                       = digitalToPhysical(wrap16(digitalOf(ij)),
                                           cache[1].signals[ij[1]])

(***************************************************************************)
(* Signal fields wider than their columns                                  *)
(***************************************************************************)
\* the numbers of signal s that buildHeader renders into 8-character columns
numericFields(s) ==
    {s.physicalMin, s.physicalMax, s.digitalMin, s.digitalMax, s.samplesPerRecord}

\* some signal of the header holds a number whose text is longer than its
\* column, so that the column would hold another number
Unrenderable ==
    \E i \in 1..Len(header.signals) :
        \E n \in numericFields(header.signals[i]) : Len(IntToString(n)) > 8

\* C24: write() throws and returns no buffer when a signal field value
\* cannot be rendered within its fixed header width.
C24_UnrenderableFieldFails ==
    (wsrc # "none" /\ out.status # "none" /\ Unrenderable) =>
        /\ out.status = "threw"
        /\ out.buffer = <<>>

(***************************************************************************)
(* Sample array supplied for the annotation signal                         *)
(***************************************************************************)
\* the constructor has run on a non-empty annotation list and the caller
\* supplied a sample array at the annotation signal's index
PresizedConstructed ==
    /\ wsrc # "none"
    /\ wpc \in {"constructed", "threw"}
    /\ given.annotations.defined
    /\ Len(given.annotations.list) > 0
    /\ Len(given.signalData) > findAnnotationIndex(header.signals)

\* the array the caller supplied for the annotation signal
presized == given.signalData[findAnnotationIndex(header.signals) + 1]

\* samplesPerRecord * dataRecords of the annotation signal
totalAnnotationSamples == annotationSamplesPerRecord * header.dataRecords

\* C25: with a non-empty annotation list, a supplied annotation sample
\* array longer than samplesPerRecord * dataRecords makes the constructor
\* throw; an empty or shorter one is zero-filled to exactly that length.
C25_PresizedAnnotationData ==
    PresizedConstructed =>
        IF Len(presized) > totalAnnotationSamples
        THEN wpc = "threw"
        ELSE /\ wpc = "constructed"
             /\ signalData[findAnnotationIndex(header.signals) + 1]
                    = presized \o Repeat(0, totalAnnotationSamples - Len(presized))

C25_TooLongThrew ==
    /\ PresizedConstructed
    /\ Len(presized) > totalAnnotationSamples
    /\ totalAnnotationSamples > 3
    /\ wpc = "threw"

(***************************************************************************)
(* Size of the output                                                      *)
(***************************************************************************)
IsAscii(text) == \A i \in 1..Len(text) : text[i] < 128

\* every text field of the writer's header is ASCII and the signals list
\* has signalCount entries
AsciiHeader ==
    /\ Len(header.signals) = header.signalCount
    /\ IsAscii(header.version)
    /\ IsAscii(header.patientId)
    /\ IsAscii(header.recordingId)
    /\ IsAscii(header.reserved)
    /\ \A i \in 1..Len(header.signals) :
        /\ IsAscii(header.signals[i].label)
        /\ IsAscii(header.signals[i].transducerType)
        /\ IsAscii(header.signals[i].physicalDimension)
        /\ IsAscii(header.signals[i].prefiltering)
        /\ IsAscii(header.signals[i].reserved)

\* the width bytes of the buffer from offset start on are text, padded
\* with spaces or cut to the width
BufferHolds(start, width, text) ==
    subarray(out.buffer, start, start + width)
        = substring0(padEnd(text, width), width)

\* the fields of the fixed part that write() copies from the header, and
\* the first and the last two columns of every signal, lie at their offsets
FieldsInPlace ==
    /\ BufferHolds(0, 8, header.version)
    /\ BufferHolds(8, 80, header.patientId)
    /\ BufferHolds(88, 80, header.recordingId)
    /\ BufferHolds(168, 8, formatDate(header.startTime))
    /\ BufferHolds(176, 8, formatTime(header.startTime))
    /\ BufferHolds(236, 8, IntToString(header.dataRecords))
    /\ BufferHolds(244, 8, toFixed(header.recordDuration, 6))
    /\ BufferHolds(252, 4, IntToString(header.signalCount))
    /\ \A i \in 1..header.signalCount :
        /\ BufferHolds(256 + 16 * (i - 1), 16, header.signals[i].label)
        /\ BufferHolds(256 + 104 * header.signalCount + 8 * (i - 1), 8,
                       IntToString(header.signals[i].physicalMin))
        /\ BufferHolds(256 + 216 * header.signalCount + 8 * (i - 1), 8,
                       IntToString(header.signals[i].samplesPerRecord))
        /\ BufferHolds(256 + 224 * header.signalCount + 32 * (i - 1), 32,
                       header.signals[i].reserved)

\* C26: for an ASCII header with signalCount signals, write() returns
\* 256 + 256 * signalCount + dataRecords * (sum of samplesPerRecord * 2)
\* bytes, and every header field lies in its fixed-width place.
C26_OutputSize ==
    (wsrc # "none" /\ out.status = "ok" /\ AsciiHeader) =>
        /\ Len(out.buffer)
               = 256 + 256 * header.signalCount
                 + header.dataRecords
                       * bytesOfSignals(header.signals, header.signalCount)
        /\ FieldsInPlace

C26_LongFieldWritten ==
    /\ wsrc # "none"
    /\ out.status = "ok"
    /\ AsciiHeader
    /\ Len(header.signals[1].label) > 16

(***************************************************************************)
(* Constructing a writer again                                             *)
(***************************************************************************)
\* what the first construction made of the caller's header and arrays
constructedOnce ==
    configureAnnotationSignal(wsrc, given.header, given.signalData,
                              given.annotations)

\* the caller gave a non-empty annotation list, a header whose signalCount
\* is the length of its signals list, and no more sample arrays than the
\* header has signals once the annotation signal is in it
ConsistentInput ==
    /\ wsrc # "none"
    /\ given.annotations.defined
    /\ Len(given.annotations.list) > 0
    /\ given.header.signalCount = Len(given.header.signals)
    /\ Len(given.signalData) <= constructedOnce.header.signalCount

\* the labels of the header that hold "EDF Annotations"
annotationLabels ==
    {i \in 1..Len(header.signals) :
        includes(header.signals[i].label, EDFAnnotationsLabel)}

\* C27: after one construction with a non-empty annotation list and after
\* any number of them on the same objects, the header holds exactly one
\* "EDF Annotations" signal, signalCount = signals.length,
\* headerBytes = 256 + 256 * signalCount, the list of sample arrays has
\* signalCount entries, and a further construction changed nothing.
C27_ConstructionIdempotent ==
    (ConsistentInput /\ wpc \in {"constructed", "again"} /\ out.status = "none") =>
        /\ Cardinality(annotationLabels) = 1
        /\ header.signalCount = Len(header.signals)
        /\ header.headerBytes = 256 + 256 * header.signalCount
        /\ Len(signalData) = header.signalCount
        /\ header = constructedOnce.header
        /\ signalData = constructedOnce.signalData


(***************************************************************************)
(* Calling write() again                                                   *)
(***************************************************************************)
\* the signals whose array write() has padded
padded ==
    {i \in 1..Len(given.signalData) :
        /\ i <= Len(signalData)
        /\ Len(given.signalData[i]) < Len(signalData[i])}

\* C28: write() is repeatable: once a call has returned a buffer, every
\* later call on the same writer returns the same bytes, the arrays the
\* first call padded in place included.
C28_WriteRepeatable == [][out.status = "ok" => out' = out]_vars

\* write() has returned a buffer after padding a numeric signal's array
\* that held a non-zero sample, and the writer is there to be called again
C28_PaddedThenWritten ==
    /\ out.status = "ok"
    /\ wpc = "constructed"
    /\ \E i \in padded :
        /\ ~includes(header.signals[i].label, EDFAnnotationsLabel)
        /\ \E k \in 1..Len(given.signalData[i]) : given.signalData[i][k] # 0
    /\ write(wsrc, header, signalData, annotations).buffer = out.buffer


(***************************************************************************)
(* Annotations outside the recording                                       *)
(***************************************************************************)
\* dataRecords * recordDuration, exactly, in thousandths
recordingEnd == header.dataRecords * header.recordDuration

\* the supplied annotations whose onset is outside [0, recordingEnd)
outOfRange ==
    {i \in 1..Len(annotations.list) :
        \/ annotations.list[i].onset < 0
        \/ annotations.list[i].onset >= recordingEnd}

\* C29: an annotation whose onset is negative or at or after
\* dataRecords * recordDuration is written into no record's block and
\* raises no error; every other annotation is written into exactly one
\* record's block.
C29_OutOfRangeDropped ==
    (/\ result.op = "generateAnnotationBlock"
     /\ Len(result.value) = header.dataRecords) =>
        /\ ~configureAnnotationSignal(wsrc, given.header, given.signalData,
                                      given.annotations).threw
        /\ \A i \in 1..Len(annotations.list) :
            IF i \in outOfRange
            THEN blocksHolding(annotations.list[i]) = {}
            ELSE Cardinality(blocksHolding(annotations.list[i])) = 1


(***************************************************************************)
(* The caller's objects after a write() that threw                         *)
(***************************************************************************)
\* C30: a write() that throws, for a count of arrays that is not
\* signalCount or for an array that is too long, leaves the header and the
\* list of sample arrays as they were before the call, the arrays of the
\* signals before the too-long one included.
C30_UnchangedOnError ==
    [][out'.status = "threw" => (header' = header /\ signalData' = signalData)]_vars

=============================================================================
